---- MODULE Spec2Model ----
(***************************************************************************)
(* A model of edgar/xbrl/presentation.py: the XBRL presentation-linkbase    *)
(* parser (XBRLPresentation.parse), the concept index it builds and the     *)
(* structural queries over the parsed trees; and of the paging of           *)
(* CurrentFilings and the iteration of Filings in edgar/_filings.py.        *)
(*                                                                          *)
(* Strings are sequences of one-character strings, so that the regular      *)
(* expression of normalize_concept, str.split, len() and the `in` tests     *)
(* are computed, not assumed.  A missing XML attribute (Python's None) is   *)
(* the value None.  The elements of one presentation-link block are         *)
(* numbered 1..n in the order of the block's `locs` OrderedDict; 0 is the   *)
(* role root created at the end of the block, NoParent is `parent = None`.  *)
(***************************************************************************)
EXTENDS Integers, Sequences, FiniteSets, TLC

VARIABLES
    doc,             \* the XML document handed to parse: a sequence of presentationLink blocks
    status,          \* "new" before parse; "ok" once parse returned; else the exception parse raised
    roles,           \* XBRLPresentation.roles: ordered dict, a sequence of [role, root, el]
    skipped_roles,   \* XBRLPresentation.skipped_roles
    standard_statement_map,  \* XBRLPresentation.standard_statement_map: standard name -> role URI
    concept_index,   \* XBRLPresentation.concept_index: concept -> sequence of role URIs
    call,            \* the query in progress: [op, arg], op = "none" when no call is open
    result,          \* what the open call returns
    feed,            \* the number of entries the SEC current-filings feed holds
    current_filings, \* the CurrentFilings object: [made, _start, _page_size, data]
    requests,        \* the calls of get_current_entries_on_page so far: [op, start, count, returned]
    filings,         \* a Filings object: [n, len], len = len(self.data)
    loops            \* the iterations over the Filings object: [pc, yielded]

vars == <<doc, status, roles, skipped_roles, standard_statement_map, concept_index, call, result,
          feed, current_filings, requests, filings, loops>>

\* the state of edgar/_filings.py
filings_state == <<feed, current_filings, requests, filings, loops>>

presentation == <<doc, status, roles, skipped_roles, standard_statement_map, concept_index>>

-----------------------------------------------------------------------------
(* Bounds of the model.                                                     *)

\* the largest number of presentationLink blocks in a document of roles
MaxBlocks == 3

\* the longest concept string handed to normalize_concept on its own
MaxConceptLen == 5

\* the largest number of presentationArc elements in the block of a document
MaxArcs == 4

-----------------------------------------------------------------------------
(* Strings.                                                                 *)

None == <<"None">>

Digits == {"0", "1", "2", "3", "4", "5", "6", "7", "8", "9"}

\* Python truthiness of an attribute value: None and "" are falsy
Truthy(s) == s # None /\ s # <<>>

\* ch in s
Contains(s, ch) == \E i \in 1..Len(s) : s[i] = ch

\* s.split(ch)[-1]
LastSplit(s, ch) ==
    IF ~Contains(s, ch) THEN s
    ELSE LET i == CHOOSE j \in 1..Len(s) : s[j] = ch /\ \A k \in (j+1)..Len(s) : s[k] # ch
         IN  SubSeq(s, i + 1, Len(s))

\* the number of digits at the end of s
RECURSIVE TrailingDigits(_)
TrailingDigits(s) ==
    IF s = <<>> \/ s[Len(s)] \notin Digits THEN 0
    ELSE 1 + TrailingDigits(SubSeq(s, 1, Len(s) - 1))

\* re.sub(r'_\d+$', '', concept)
normalize_concept(concept) ==
    LET n == TrailingDigits(concept)
    IN  IF n >= 1 /\ Len(concept) > n /\ concept[Len(concept) - n] = "_"
        THEN SubSeq(concept, 1, Len(concept) - n - 1)
        ELSE concept

\* float(s) for the order values of the documents modelled here: a non-empty
\* string of digits is its number, any other string makes float() raise ValueError
FloatOk(s) == s # <<>> /\ \A i \in 1..Len(s) : s[i] \in Digits

DigitVal(ch) == CHOOSE n \in 0..9 : <<"0", "1", "2", "3", "4", "5", "6", "7", "8", "9">>[n + 1] = ch

RECURSIVE Float(_)
Float(s) == IF s = <<>> THEN 0 ELSE 10 * Float(SubSeq(s, 1, Len(s) - 1)) + DigitVal(s[Len(s)])

-----------------------------------------------------------------------------
(* PresentationElement.node_type.                                           *)

UpperLetters == <<"A", "B", "C", "D", "E", "F", "G", "H", "I", "J", "K", "L", "M", "N", "O", "P", "Q", "R", "S", "T", "U", "V", "W", "X", "Y", "Z">>

LowerLetters == <<"a", "b", "c", "d", "e", "f", "g", "h", "i", "j", "k", "l", "m", "n", "o", "p", "q", "r", "s", "t", "u", "v", "w", "x", "y", "z">>

\* ch.lower()
LowerChar(ch) ==
    IF \E i \in 1..26 : UpperLetters[i] = ch
    THEN LowerLetters[CHOOSE i \in 1..26 : UpperLetters[i] = ch]
    ELSE ch

\* s.lower()
Lower(s) == [i \in 1..Len(s) |-> LowerChar(s[i])]

\* s.startswith(p)
StartsWith(s, p) == Len(s) >= Len(p) /\ SubSeq(s, 1, Len(p)) = p

\* s.endswith(p)
EndsWith(s, p) == Len(s) >= Len(p) /\ SubSeq(s, Len(s) - Len(p) + 1, Len(s)) = p

\* sub in s
HasSub(s, sub) == \E i \in 1..(Len(s) - Len(sub) + 1) : SubSeq(s, i, i + Len(sub) - 1) = sub

SHttp == <<"h", "t", "t", "p", ":", "/", "/">>
SRole == <<"r", "o", "l", "e">>
STable == <<"T", "a", "b", "l", "e">>
SStatementTable == <<"s", "t", "a", "t", "e", "m", "e", "n", "t", "t", "a", "b", "l", "e">>
SLineItems == <<"L", "i", "n", "e", "I", "t", "e", "m", "s">>
SStatementLineItems == <<"s", "t", "a", "t", "e", "m", "e", "n", "t", "l", "i", "n", "e", "i", "t", "e", "m", "s">>
SScheduleLineItems == <<"s", "c", "h", "e", "d", "u", "l", "e", "l", "i", "n", "e", "i", "t", "e", "m", "s">>
SAxis == <<"A", "x", "i", "s">>
SAxisBr == <<"[", "a", "x", "i", "s", "]">>
SMember == <<"M", "e", "m", "b", "e", "r">>
SMemberBr == <<"[", "m", "e", "m", "b", "e", "r", "]">>
SDomain == <<"D", "o", "m", "a", "i", "n">>
SDomainBr == <<"[", "d", "o", "m", "a", "i", "n", "]">>
SAbstract == <<"A", "b", "s", "t", "r", "a", "c", "t">>
SAbstractBr == <<"[", "a", "b", "s", "t", "r", "a", "c", "t", "]">>
SAbstractLower == <<"a", "b", "s", "t", "r", "a", "c", "t">>

\* a variant that tests the Abstract patterns before the Table patterns
node_type_abstract_first(concept) ==
    LET concept_lower == Lower(concept)
    IN  IF StartsWith(concept, SHttp) /\ HasSub(concept_lower, SRole) THEN "Statement"
        ELSE IF \/ EndsWith(concept, SAbstract)
                \/ HasSub(concept_lower, SAbstractBr)
                \/ HasSub(concept_lower, SAbstractLower) THEN "Abstract"
        ELSE IF EndsWith(concept, STable) \/ HasSub(concept_lower, SStatementTable) THEN "Table"
        ELSE IF \/ EndsWith(concept, SLineItems)
                \/ HasSub(concept_lower, SStatementLineItems)
                \/ HasSub(concept_lower, SScheduleLineItems) THEN "LineItems"
        ELSE IF EndsWith(concept, SAxis) \/ HasSub(concept_lower, SAxisBr) THEN "Axis"
        ELSE IF EndsWith(concept, SMember) \/ HasSub(concept_lower, SMemberBr) THEN "Member"
        ELSE IF EndsWith(concept, SDomain) \/ HasSub(concept_lower, SDomainBr) THEN "Domain"
        ELSE "LineItem"

\* the node_type property: the first pattern that matches, in this order
node_type(concept) ==
    LET concept_lower == Lower(concept)
    IN  IF StartsWith(concept, SHttp) /\ HasSub(concept_lower, SRole) THEN "Statement"
        ELSE IF EndsWith(concept, STable) \/ HasSub(concept_lower, SStatementTable) THEN "Table"
        ELSE IF \/ EndsWith(concept, SLineItems)
                \/ HasSub(concept_lower, SStatementLineItems)
                \/ HasSub(concept_lower, SScheduleLineItems) THEN "LineItems"
        ELSE IF EndsWith(concept, SAxis) \/ HasSub(concept_lower, SAxisBr) THEN "Axis"
        ELSE IF EndsWith(concept, SMember) \/ HasSub(concept_lower, SMemberBr) THEN "Member"
        ELSE IF EndsWith(concept, SDomain) \/ HasSub(concept_lower, SDomainBr) THEN "Domain"
        ELSE IF \/ EndsWith(concept, SAbstract)
                \/ HasSub(concept_lower, SAbstractBr)
                \/ HasSub(concept_lower, SAbstractLower) THEN "Abstract"
        ELSE "LineItem"

-----------------------------------------------------------------------------
(* FinancialStatementMapper.                                                *)

\* char.upper()
UpperChar(ch) ==
    IF \E i \in 1..26 : LowerLetters[i] = ch
    THEN UpperLetters[CHOOSE i \in 1..26 : LowerLetters[i] = ch]
    ELSE ch

\* char.isalnum()
IsAlnum(ch) ==
    \/ ch \in Digits
    \/ \E i \in 1..26 : UpperLetters[i] = ch \/ LowerLetters[i] = ch

\* s.split(ch)[0]
FirstSplit(s, ch) ==
    IF Contains(s, ch)
    THEN SubSeq(s, 1, (CHOOSE i \in 1..Len(s) : s[i] = ch /\ \A j \in 1..(i-1) : s[j] # ch) - 1)
    ELSE s

\* ''.join(char.upper() for char in role_name if char.isalnum())
RECURSIVE UpperAlnum(_)
UpperAlnum(s) ==
    IF s = <<>> THEN <<>>
    ELSE (IF IsAlnum(Head(s)) THEN <<UpperChar(Head(s))>> ELSE <<>>) \o UpperAlnum(Tail(s))

BalanceSheetVariations ==
    << <<"C", "O", "N", "S", "O", "L", "I", "D", "A", "T", "E", "D", "B", "A", "L", "A", "N", "C", "E", "S", "H", "E", "E", "T", "S">>,
       <<"C", "O", "N", "S", "O", "L", "I", "D", "A", "T", "E", "D", "B", "A", "L", "A", "N", "C", "E", "S", "H", "E", "E", "T">>,
       <<"C", "O", "M", "P", "R", "E", "H", "E", "N", "S", "I", "V", "E", "B", "A", "L", "A", "N", "C", "E", "S", "H", "E", "E", "T", "S">>,
       <<"C", "O", "M", "P", "R", "E", "H", "E", "N", "S", "I", "V", "E", "B", "A", "L", "A", "N", "C", "E", "S", "H", "E", "E", "T">>,
       <<"B", "A", "L", "A", "N", "C", "E", "S", "H", "E", "E", "T">>,
       <<"B", "A", "L", "A", "N", "C", "E", "S", "H", "E", "E", "T", "S">>,
       <<"S", "T", "A", "T", "E", "M", "E", "N", "T", "O", "F", "F", "I", "N", "A", "N", "C", "I", "A", "L", "P", "O", "S", "I", "T", "I", "O", "N">>,
       <<"S", "T", "A", "T", "E", "M", "E", "N", "T", "S", "O", "F", "F", "I", "N", "A", "N", "C", "I", "A", "L", "P", "O", "S", "I", "T", "I", "O", "N">>,
       <<"C", "O", "N", "S", "O", "L", "I", "D", "A", "T", "E", "D", "S", "T", "A", "T", "E", "M", "E", "N", "T", "O", "F", "F", "I", "N", "A", "N", "C", "I", "A", "L", "P", "O", "S", "I", "T", "I", "O", "N">>,
       <<"C", "O", "N", "S", "O", "L", "I", "D", "A", "T", "E", "D", "S", "T", "A", "T", "E", "M", "E", "N", "T", "S", "O", "F", "F", "I", "N", "A", "N", "C", "I", "A", "L", "P", "O", "S", "I", "T", "I", "O", "N">> >>

IncomeStatementVariations ==
    << <<"C", "O", "N", "S", "O", "L", "I", "D", "A", "T", "E", "D", "S", "T", "A", "T", "E", "M", "E", "N", "T", "S", "O", "F", "O", "P", "E", "R", "A", "T", "I", "O", "N", "S">>,
       <<"C", "O", "N", "S", "O", "L", "I", "D", "A", "T", "E", "D", "S", "T", "A", "T", "E", "M", "E", "N", "T", "O", "F", "O", "P", "E", "R", "A", "T", "I", "O", "N", "S">>,
       <<"S", "T", "A", "T", "E", "M", "E", "N", "T", "S", "O", "F", "O", "P", "E", "R", "A", "T", "I", "O", "N", "S">>,
       <<"S", "T", "A", "T", "E", "M", "E", "N", "T", "O", "F", "O", "P", "E", "R", "A", "T", "I", "O", "N", "S">>,
       <<"I", "N", "C", "O", "M", "E", "S", "T", "A", "T", "E", "M", "E", "N", "T">>,
       <<"I", "N", "C", "O", "M", "E", "S", "T", "A", "T", "E", "M", "E", "N", "T", "S">>,
       <<"C", "O", "N", "S", "O", "L", "I", "D", "A", "T", "E", "D", "I", "N", "C", "O", "M", "E", "S", "T", "A", "T", "E", "M", "E", "N", "T">>,
       <<"C", "O", "N", "S", "O", "L", "I", "D", "A", "T", "E", "D", "I", "N", "C", "O", "M", "E", "S", "T", "A", "T", "E", "M", "E", "N", "T", "S">>,
       <<"S", "T", "A", "T", "E", "M", "E", "N", "T", "S", "O", "F", "I", "N", "C", "O", "M", "E">>,
       <<"S", "T", "A", "T", "E", "M", "E", "N", "T", "O", "F", "I", "N", "C", "O", "M", "E">>,
       <<"C", "O", "N", "S", "O", "L", "I", "D", "A", "T", "E", "D", "S", "T", "A", "T", "E", "M", "E", "N", "T", "S", "O", "F", "I", "N", "C", "O", "M", "E">>,
       <<"C", "O", "N", "S", "O", "L", "I", "D", "A", "T", "E", "D", "S", "T", "A", "T", "E", "M", "E", "N", "T", "O", "F", "I", "N", "C", "O", "M", "E">>,
       <<"C", "O", "N", "S", "O", "L", "I", "D", "A", "T", "E", "D", "S", "T", "A", "T", "E", "M", "E", "N", "T", "S", "O", "F", "I", "N", "C", "O", "M", "E", "L", "O", "S", "S">>,
       <<"C", "O", "N", "S", "O", "L", "I", "D", "A", "T", "E", "D", "S", "T", "A", "T", "E", "M", "E", "N", "T", "O", "F", "I", "N", "C", "O", "M", "E", "L", "O", "S", "S">>,
       <<"S", "T", "A", "T", "E", "M", "E", "N", "T", "S", "O", "F", "E", "A", "R", "N", "I", "N", "G", "S">>,
       <<"S", "T", "A", "T", "E", "M", "E", "N", "T", "O", "F", "E", "A", "R", "N", "I", "N", "G", "S">>,
       <<"C", "O", "N", "S", "O", "L", "I", "D", "A", "T", "E", "D", "S", "T", "A", "T", "E", "M", "E", "N", "T", "S", "O", "F", "E", "A", "R", "N", "I", "N", "G", "S">>,
       <<"C", "O", "N", "S", "O", "L", "I", "D", "A", "T", "E", "D", "S", "T", "A", "T", "E", "M", "E", "N", "T", "O", "F", "E", "A", "R", "N", "I", "N", "G", "S">> >>

CashFlowVariations ==
    << <<"C", "O", "N", "S", "O", "L", "I", "D", "A", "T", "E", "D", "S", "T", "A", "T", "E", "M", "E", "N", "T", "S", "O", "F", "C", "A", "S", "H", "F", "L", "O", "W", "S">>,
       <<"C", "O", "N", "S", "O", "L", "I", "D", "A", "T", "E", "D", "S", "T", "A", "T", "E", "M", "E", "N", "T", "O", "F", "C", "A", "S", "H", "F", "L", "O", "W", "S">>,
       <<"S", "T", "A", "T", "E", "M", "E", "N", "T", "O", "F", "C", "A", "S", "H", "F", "L", "O", "W", "S">>,
       <<"S", "T", "A", "T", "E", "M", "E", "N", "T", "S", "O", "F", "C", "A", "S", "H", "F", "L", "O", "W", "S">>,
       <<"C", "A", "S", "H", "F", "L", "O", "W", "S", "T", "A", "T", "E", "M", "E", "N", "T">>,
       <<"C", "A", "S", "H", "F", "L", "O", "W", "S", "T", "A", "T", "E", "M", "E", "N", "T", "S">> >>

EquityVariations ==
    << <<"C", "O", "N", "S", "O", "L", "I", "D", "A", "T", "E", "D", "S", "T", "A", "T", "E", "M", "E", "N", "T", "S", "O", "F", "S", "H", "A", "R", "E", "H", "O", "L", "D", "E", "R", "S", "E", "Q", "U", "I", "T", "Y">>,
       <<"C", "O", "N", "S", "O", "L", "I", "D", "A", "T", "E", "D", "S", "T", "A", "T", "E", "M", "E", "N", "T", "O", "F", "S", "H", "A", "R", "E", "H", "O", "L", "D", "E", "R", "S", "E", "Q", "U", "I", "T", "Y">>,
       <<"C", "O", "N", "S", "O", "L", "I", "D", "A", "T", "E", "D", "S", "T", "A", "T", "E", "M", "E", "N", "T", "S", "O", "F", "S", "T", "O", "C", "K", "H", "O", "L", "D", "E", "R", "S", "E", "Q", "U", "I", "T", "Y">>,
       <<"C", "O", "N", "S", "O", "L", "I", "D", "A", "T", "E", "D", "S", "T", "A", "T", "E", "M", "E", "N", "T", "O", "F", "S", "T", "O", "C", "K", "H", "O", "L", "D", "E", "R", "S", "E", "Q", "U", "I", "T", "Y">>,
       <<"S", "T", "A", "T", "E", "M", "E", "N", "T", "O", "F", "S", "H", "A", "R", "E", "H", "O", "L", "D", "E", "R", "S", "E", "Q", "U", "I", "T", "Y">>,
       <<"S", "T", "A", "T", "E", "M", "E", "N", "T", "O", "F", "S", "T", "O", "C", "K", "H", "O", "L", "D", "E", "R", "S", "E", "Q", "U", "I", "T", "Y">>,
       <<"S", "T", "A", "T", "E", "M", "E", "N", "T", "S", "O", "F", "C", "H", "A", "N", "G", "E", "S", "I", "N", "E", "Q", "U", "I", "T", "Y">>,
       <<"S", "T", "A", "T", "E", "M", "E", "N", "T", "O", "F", "C", "H", "A", "N", "G", "E", "S", "I", "N", "E", "Q", "U", "I", "T", "Y">>,
       <<"C", "O", "N", "S", "O", "L", "I", "D", "A", "T", "E", "D", "S", "T", "A", "T", "E", "M", "E", "N", "T", "S", "O", "F", "C", "H", "A", "N", "G", "E", "S", "I", "N", "E", "Q", "U", "I", "T", "Y">>,
       <<"C", "O", "N", "S", "O", "L", "I", "D", "A", "T", "E", "D", "S", "T", "A", "T", "E", "M", "E", "N", "T", "O", "F", "C", "H", "A", "N", "G", "E", "S", "I", "N", "E", "Q", "U", "I", "T", "Y">>,
       <<"S", "T", "A", "T", "E", "M", "E", "N", "T", "O", "F", "E", "Q", "U", "I", "T", "Y">>,
       <<"S", "T", "A", "T", "E", "M", "E", "N", "T", "S", "O", "F", "E", "Q", "U", "I", "T", "Y">> >>

ComprehensiveIncomeVariations ==
    << <<"C", "O", "N", "S", "O", "L", "I", "D", "A", "T", "E", "D", "S", "T", "A", "T", "E", "M", "E", "N", "T", "S", "O", "F", "C", "O", "M", "P", "R", "E", "H", "E", "N", "S", "I", "V", "E", "I", "N", "C", "O", "M", "E">>,
       <<"C", "O", "N", "S", "O", "L", "I", "D", "A", "T", "E", "D", "S", "T", "A", "T", "E", "M", "E", "N", "T", "O", "F", "C", "O", "M", "P", "R", "E", "H", "E", "N", "S", "I", "V", "E", "I", "N", "C", "O", "M", "E">>,
       <<"S", "T", "A", "T", "E", "M", "E", "N", "T", "O", "F", "C", "O", "M", "P", "R", "E", "H", "E", "N", "S", "I", "V", "E", "I", "N", "C", "O", "M", "E">>,
       <<"S", "T", "A", "T", "E", "M", "E", "N", "T", "S", "O", "F", "C", "O", "M", "P", "R", "E", "H", "E", "N", "S", "I", "V", "E", "I", "N", "C", "O", "M", "E">>,
       <<"C", "O", "M", "P", "R", "E", "H", "E", "N", "S", "I", "V", "E", "I", "N", "C", "O", "M", "E", "S", "T", "A", "T", "E", "M", "E", "N", "T">>,
       <<"C", "O", "M", "P", "R", "E", "H", "E", "N", "S", "I", "V", "E", "I", "N", "C", "O", "M", "E", "S", "T", "A", "T", "E", "M", "E", "N", "T", "S">> >>

CoverPageVariations ==
    << <<"C", "O", "V", "E", "R", "P", "A", "G", "E">>,
       <<"C", "O", "V", "E", "R">>,
       <<"D", "O", "C", "U", "M", "E", "N", "T", "A", "N", "D", "E", "N", "T", "I", "T", "Y", "I", "N", "F", "O", "R", "M", "A", "T", "I", "O", "N">>,
       <<"E", "N", "T", "I", "T", "Y", "I", "N", "F", "O", "R", "M", "A", "T", "I", "O", "N">> >>

\* the class attribute, in the order of the dict
STANDARD_STATEMENTS ==
    << [standard_name |-> "BALANCE_SHEET", variations |-> BalanceSheetVariations],
       [standard_name |-> "INCOME_STATEMENT", variations |-> IncomeStatementVariations],
       [standard_name |-> "CASH_FLOW", variations |-> CashFlowVariations],
       [standard_name |-> "EQUITY", variations |-> EquityVariations],
       [standard_name |-> "COMPREHENSIVE_INCOME", variations |-> ComprehensiveIncomeVariations],
       [standard_name |-> "COVER_PAGE", variations |-> CoverPageVariations] >>

\* FinancialStatementMapper.get_standard_name(role_name): the first category
\* one of whose variations is the normalized last part of the URI, else None
get_standard_name(role_name) ==
    LET matches(i) == \E j \in 1..Len(STANDARD_STATEMENTS[i].variations) :
                          STANDARD_STATEMENTS[i].variations[j]
                            = UpperAlnum(FirstSplit(LastSplit(role_name, "/"), "."))
    IN  IF \E i \in 1..Len(STANDARD_STATEMENTS) : matches(i)
        THEN STANDARD_STATEMENTS[CHOOSE i \in 1..Len(STANDARD_STATEMENTS) :
                                    matches(i) /\ \A k \in 1..(i-1) : ~matches(k)].standard_name
        ELSE "None"

-----------------------------------------------------------------------------
(* The documents.  A block is a presentationLink element: its role          *)
(* attribute, its loc elements and its presentationArc elements, in         *)
(* document order.                                                          *)

RoleA == <<"h", "t", "t", "p", ":", "/", "/", "x", "/", "r", "o", "l", "e", "/", "A">>
RoleB == <<"h", "t", "t", "p", ":", "/", "/", "x", "/", "r", "o", "l", "e", "/", "B", "_", "2">>
RoleZ == <<"h", "t", "t", "p", ":", "/", "/", "x", "/", "r", "o", "l", "e", "/", "Z">>

UsGaap   == <<"u", "s", "-", "g", "a", "a", "p">>
IfrsFull == <<"i", "f", "r", "s", "-", "f", "u", "l", "l">>
Dei      == <<"d", "e", "i">>

\* f"{ns}_{concept}"
Namespaced(ns, concept) == ns \o <<"_">> \o concept

Href(fragment) == <<"x", ".", "x", "s", "d", "#">> \o fragment

Loc(label, href) == [label |-> label, href |-> href]

Arc(from, to, order, preferredLabel) ==
    [from |-> from, to |-> to, order |-> order, preferredLabel |-> preferredLabel]

LP  == <<"P">>
LA1 == <<"A", "_", "1">>
LA2 == <<"A", "_", "2", "2">>
LK  == <<"K">>
LL  == <<"L">>
LU  == <<"U">>

\* the loc elements of a tree block: two locators (A_1, A_22) share the
\* normalized concept us-gaap_A; one loc has no label, one no href, and the
\* label K occurs twice
TreeLocs ==
    << Loc(LP, Href(<<"P">>)),
       Loc(LK, Href(<<"O", "l", "d">>)),
       Loc(LA1, Href(Namespaced(UsGaap, <<"A", "_", "1", "_", "2">>))),
       Loc(None, Href(<<"Z">>)),
       Loc(LA2, Href(Namespaced(UsGaap, <<"A", "_", "2">>))),
       Loc(<<"Z">>, None),
       Loc(LK, Href(<<"A">>)),
       Loc(LL, Href(<<"L">>)) >>

\* the presentationArc elements a tree block draws from
TreeArcs ==
    { Arc(LP, LA1, <<"1">>, None),
      Arc(LP, LA2, <<"2">>, <<"t">>),
      Arc(LA1, LK, None, None),
      Arc(LA2, LL, <<"1">>, None),
      Arc(LK, LA1, <<"3">>, None),
      Arc(LU, LK, <<"1">>, None),
      Arc(LA1, LL, <<"2">>, None),
      Arc(LA1, LK, <<"x">>, None) }

ArcSeqs == UNION {[1..n -> TreeArcs] : n \in 0..MaxArcs}

\* one block of role A: with its locators, or in the older format without any
TreeDocs ==
    {<<[role |-> RoleA, locs |-> locs, arcs |-> arcs]>> :
        locs \in {TreeLocs, <<>>}, arcs \in ArcSeqs}

-----------------------------------------------------------------------------
(* PresentationElement and XBRLPresentation.parse.                          *)

NoParent == -1

\* PresentationElement.__init__
PresentationElement(label, href, order, concept) ==
    [label |-> label, href |-> href, order |-> order,
     concept |-> IF Truthy(concept) THEN concept ELSE label,
     level |-> 0, children |-> <<>>, preferred_label |-> None, parent |-> NoParent]

\* the position of a key of the locs OrderedDict
KeyIndex(keys, label) == CHOOSE i \in 1..Len(keys) : keys[i] = label

HasKey(keys, label) == \E i \in 1..Len(keys) : keys[i] = label

\* locs[label] = element: a new key is appended, a known key keeps its place
SetLoc(locs, label, element) ==
    IF HasKey(locs.keys, label)
    THEN [locs EXCEPT !.el[KeyIndex(locs.keys, label)] = element]
    ELSE [keys |-> Append(locs.keys, label), el |-> Append(locs.el, element)]

\* the loop over the loc elements: one without label or href is skipped
RECURSIVE ParseLocs(_, _, _)
ParseLocs(locElems, i, locs) ==
    IF i > Len(locElems) THEN locs
    ELSE LET label == locElems[i].label
             href  == locElems[i].href
         IN  IF ~Truthy(label) \/ ~Truthy(href)
             THEN ParseLocs(locElems, i + 1, locs)
             ELSE ParseLocs(locElems, i + 1,
                     SetLoc(locs, label,
                            PresentationElement(label, href, 0,
                                                normalize_concept(LastSplit(href, "#")))))

\* float(arc.get('order', '0')) raises for some arc
ArcsRaise(arcElems) ==
    \E i \in 1..Len(arcElems) : arcElems[i].order # None /\ ~FloatOk(arcElems[i].order)

\* the loop over the presentationArc elements:
\* (parent_label, child_label, order, preferred_label)
ParseArcs(arcElems) ==
    [i \in 1..Len(arcElems) |->
        [parent_label |-> arcElems[i].from,
         child_label |-> arcElems[i].to,
         order |-> IF arcElems[i].order = None THEN 0 ELSE Float(arcElems[i].order),
         preferred_label |-> arcElems[i].preferredLabel]]

\* the older format: re.sub raises TypeError when handed None as a label
LegacyRaises(locs, arcs) ==
    locs.keys = <<>> /\ \E i \in 1..Len(arcs) :
        arcs[i].parent_label = None \/ arcs[i].child_label = None

\* the older format: an element for every label an arc names
RECURSIVE LegacyLocs(_, _, _)
LegacyLocs(arcs, i, locs) ==
    IF i > Len(arcs) THEN locs
    ELSE LET p  == arcs[i].parent_label
             c  == arcs[i].child_label
             l1 == IF HasKey(locs.keys, p) THEN locs
                   ELSE SetLoc(locs, p, PresentationElement(p, <<>>, 0, normalize_concept(p)))
             l2 == IF HasKey(l1.keys, c) THEN l1
                   ELSE SetLoc(l1, c, PresentationElement(c, <<>>, 0, normalize_concept(c)))
         IN  LegacyLocs(arcs, i + 1, l2)

\* a variant that compares the concepts as they are, without normalize_concept
ExistingChildByRawConcept(el, parent, child) ==
    LET same(j) == el[el[parent].children[j]].concept = el[child].concept
        kids == el[parent].children
    IN  IF \E j \in 1..Len(kids) : same(j)
        THEN kids[CHOOSE j \in 1..Len(kids) : same(j) /\ \A k \in 1..(j-1) : ~same(k)]
        ELSE 0

\* next((c for c in parent.children if normalize_concept(c.concept) ==
\*       normalize_concept(child.concept)), None): 0 stands for None
ExistingChild(el, parent, child) ==
    LET same(j) == normalize_concept(el[el[parent].children[j]].concept)
                       = normalize_concept(el[child].concept)
        kids == el[parent].children
    IN  IF \E j \in 1..Len(kids) : same(j)
        THEN kids[CHOOSE j \in 1..Len(kids) : same(j) /\ \A k \in 1..(j-1) : ~same(k)]
        ELSE 0

\* the merge of child into existing_child
Merge(el, existing, child) ==
    LET e1 == [el EXCEPT ![existing].children = @ \o el[child].children]
        e2 == IF Len(e1[child].label) > Len(e1[existing].label)
              THEN [e1 EXCEPT ![existing].label = e1[child].label] ELSE e1
        e3 == IF Len(e2[child].concept) < Len(e2[existing].concept)
              THEN [e2 EXCEPT ![existing].concept = e2[child].concept] ELSE e2
    IN  IF Truthy(e3[child].preferred_label)
        THEN [e3 EXCEPT ![existing].preferred_label = e3[child].preferred_label] ELSE e3

\* parent.children.append(child); child.parent = parent
Attach(el, parent, child) ==
    LET e1 == [el EXCEPT ![parent].children = Append(@, child)]
    IN  [e1 EXCEPT ![child].parent = parent]

\* the body of the hierarchy loop for one arc
ApplyArc(keys, el, arc) ==
    IF HasKey(keys, arc.parent_label) /\ HasKey(keys, arc.child_label)
    THEN LET parent == KeyIndex(keys, arc.parent_label)
             child  == KeyIndex(keys, arc.child_label)
             e1 == [el EXCEPT ![child].order = arc.order]
             e2 == [e1 EXCEPT ![child].level = e1[parent].level + 1]
             e3 == [e2 EXCEPT ![child].preferred_label = arc.preferred_label]
             existing_child == ExistingChild(e3, parent, child)
         IN  IF existing_child # 0
             THEN Merge(e3, existing_child, child)
             ELSE Attach(e3, parent, child)
    ELSE el

\* the hierarchy loop: the elements after the first n arcs
RECURSIVE BuildHierarchy(_, _, _, _)
BuildHierarchy(keys, el, arcs, n) ==
    IF n = 0 THEN el
    ELSE ApplyArc(keys, BuildHierarchy(keys, el, arcs, n - 1), arcs[n])

\* the locs of a block when the hierarchy loop starts
BlockLocs(block) ==
    IF ParseLocs(block.locs, 1, [keys |-> <<>>, el |-> <<>>]).keys = <<>>
    THEN LegacyLocs(ParseArcs(block.arcs), 1, [keys |-> <<>>, el |-> <<>>])
    ELSE ParseLocs(block.locs, 1, [keys |-> <<>>, el |-> <<>>])

\* the block reaches its hierarchy loop: it has a role and nothing raised
BlockBuilds(block) ==
    /\ Truthy(block.role)
    /\ ~ArcsRaise(block.arcs)
    /\ ~LegacyRaises(ParseLocs(block.locs, 1, [keys |-> <<>>, el |-> <<>>]),
                     ParseArcs(block.arcs))

\* the elements of a block after the first n arcs of its hierarchy loop
HierarchyAfter(block, n) ==
    BuildHierarchy(BlockLocs(block).keys, BlockLocs(block).el, ParseArcs(block.arcs), n)

\* a variant that takes the elements no arc gave a parent
RoleChildrenNoParent(el, arcs) ==
    SelectSeq([i \in 1..Len(el) |-> i], LAMBDA i : el[i].parent = NoParent)

\* role_children: the elements whose label is the child label of no arc
RoleChildren(el, arcs) ==
    SelectSeq([i \in 1..Len(el) |-> i],
              LAMBDA i : ~\E a \in 1..Len(arcs) : arcs[a].child_label = el[i].label)

\* the role element and its children, each with its parent set to the role element
RoleTree(role, el, role_children) ==
    [role |-> role,
     root |-> [PresentationElement(role, <<>>, 0, normalize_concept(role))
                  EXCEPT !.children = role_children],
     el   |-> [i \in 1..Len(el) |->
                  IF \E j \in 1..Len(role_children) : role_children[j] = i
                  THEN [el[i] EXCEPT !.parent = 0] ELSE el[i]]]

\* the end of a block: the role element is added when there are role_children
AddRole(role, el, role_children) ==
    IF role_children = <<>> THEN [exc |-> "none", add |-> FALSE]
    ELSE [exc |-> "none", add |-> TRUE, tree |-> RoleTree(role, el, role_children)]

EndBlock(role, el, arcs) == AddRole(role, el, RoleChildren(el, arcs))

\* the hierarchy loop and what follows it
BuildBlock(role, locs, arcs) ==
    EndBlock(role, BuildHierarchy(locs.keys, locs.el, arcs, Len(arcs)), arcs)

\* the older format applies when no loc element was kept
WithLegacy(role, located, arcs) ==
    IF LegacyRaises(located, arcs) THEN [exc |-> "TypeError", add |-> FALSE]
    ELSE BuildBlock(role, IF located.keys = <<>> THEN LegacyLocs(arcs, 1, located) ELSE located,
                    arcs)

\* one presentationLink block: the exception it raises, or the role tree it
\* adds to roles (none when it has no role attribute or no top-level element)
ParseBlock(block) ==
    IF ~Truthy(block.role) THEN [exc |-> "none", add |-> FALSE]
    ELSE IF ArcsRaise(block.arcs) THEN [exc |-> "ValueError", add |-> FALSE]
    ELSE WithLegacy(block.role,
                    ParseLocs(block.locs, 1, [keys |-> <<>>, el |-> <<>>]),
                    ParseArcs(block.arcs))

\* role in self.roles
HasRole(rs, role) == \E i \in 1..Len(rs) : rs[i].role = role

RoleIndex(rs, role) == CHOOSE i \in 1..Len(rs) : rs[i].role = role

\* presentation.roles[role] = ...: a dict keeps the place of a key it already has
SetRole(rs, tree) ==
    IF HasRole(rs, tree.role)
    THEN [rs EXCEPT ![RoleIndex(rs, tree.role)] = tree]
    ELSE Append(rs, tree)

\* the loop over the presentationLink blocks; the first exception ends it
RECURSIVE ParseBlocks(_, _, _)
AfterBlock(blocks, i, rs, b) ==
    IF b.exc # "none" THEN [exc |-> b.exc, roles |-> <<>>]
    ELSE ParseBlocks(blocks, i + 1, IF b.add THEN SetRole(rs, b.tree) ELSE rs)

ParseBlocks(blocks, i, rs) ==
    IF i > Len(blocks) THEN [exc |-> "none", roles |-> rs]
    ELSE AfterBlock(blocks, i, rs, ParseBlock(blocks[i]))

\* element.children, for the role element (0) and the others
Children(tree, n) == IF n = 0 THEN tree.root.children ELSE tree.el[n].children

Element(tree, n) == IF n = 0 THEN tree.root ELSE tree.el[n]

SeqRange(s) == {s[i] : i \in 1..Len(s)}

\* the elements reached from node n through children lists, n included
RECURSIVE ReachableFrom(_, _, _)
ReachableFrom(tree, frontier, seen) ==
    IF frontier \subseteq seen THEN seen
    ELSE ReachableFrom(tree,
                       UNION {SeqRange(Children(tree, n)) : n \in frontier},
                       seen \cup frontier)

Reachable(tree) == ReachableFrom(tree, {0}, {})

\* the children lists under the role element hold a cycle: the recursion of
\* _index_concepts never returns and ends in Python's RecursionError
Cyclic(tree) ==
    \E n \in Reachable(tree) :
        n \in ReachableFrom(tree, SeqRange(Children(tree, n)), {})

\* the elements in the order _index_concepts visits them
RECURSIVE PreOrder(_, _), PreOrderAll(_, _, _)
PreOrderAll(tree, kids, j) ==
    IF j > Len(kids) THEN <<>>
    ELSE PreOrder(tree, kids[j]) \o PreOrderAll(tree, kids, j + 1)

PreOrder(tree, n) == <<n>> \o PreOrderAll(tree, Children(tree, n), 1)

\* a variant that lists a role once per concept
IndexAppendOnce(index, concept, role) ==
    IF concept \in DOMAIN index
    THEN IF \E k \in 1..Len(index[concept]) : index[concept][k] = role THEN index
         ELSE [index EXCEPT ![concept] = Append(@, role)]
    ELSE [c \in DOMAIN index \cup {concept} |-> IF c = concept THEN <<role>> ELSE index[c]]

\* self.concept_index[concept].append(role) on a defaultdict(list)
IndexAppend(index, concept, role) ==
    IF concept \in DOMAIN index
    THEN [index EXCEPT ![concept] = Append(@, role)]
    ELSE [c \in DOMAIN index \cup {concept} |-> IF c = concept THEN <<role>> ELSE index[c]]

\* a variant that indexes the element it is called on and not its children
index_concepts_no_recursion(index, tree, visits, i) ==
    IF i > Len(visits) THEN index
    ELSE IndexAppend(index, Element(tree, visits[i]).concept, tree.role)

\* _index_concepts(element, role), over the visits of the recursion
RECURSIVE index_concepts(_, _, _, _)
index_concepts(index, tree, visits, i) ==
    IF i > Len(visits) THEN index
    ELSE index_concepts(IndexAppend(index, Element(tree, visits[i]).concept, tree.role),
                        tree, visits, i + 1)

\* _build_concept_index: every role of roles, in the order of the dict
RECURSIVE build_concept_index(_, _, _)
build_concept_index(index, rs, i) ==
    IF i > Len(rs) THEN index
    ELSE build_concept_index(index_concepts(index, rs[i], PreOrder(rs[i], 0), 1), rs, i + 1)

EmptyIndex == [c \in {} |-> <<>>]

EmptyMap == [n \in {} |-> <<>>]

\* a variant that keeps the first role mapped to a standard name
SetStandardOnce(map, standard_name, role) ==
    IF standard_name \in DOMAIN map THEN map
    ELSE [n \in DOMAIN map \cup {standard_name} |-> IF n = standard_name THEN role ELSE map[n]]

\* self.standard_statement_map[standard_name] = role
SetStandard(map, standard_name, role) ==
    [n \in DOMAIN map \cup {standard_name} |-> IF n = standard_name THEN role ELSE map[n]]

\* _build_statement_map: every role of roles, in the order of the dict
RECURSIVE build_statement_map(_, _, _)
build_statement_map(map, rs, i) ==
    IF i > Len(rs) THEN map
    ELSE build_statement_map(
             IF get_standard_name(rs[i].role) # "None"
             THEN SetStandard(map, get_standard_name(rs[i].role), rs[i].role) ELSE map,
             rs, i + 1)

\* the end of parse: _build_statement_map, then _build_concept_index, whose
\* recursion does not end on a cycle of children lists
Indexed(built) ==
    IF built.exc # "none"
    THEN [status |-> built.exc, roles |-> <<>>, standard_statement_map |-> EmptyMap,
          concept_index |-> EmptyIndex]
    ELSE IF \E i \in 1..Len(built.roles) : Cyclic(built.roles[i])
    THEN [status |-> "RecursionError", roles |-> <<>>, standard_statement_map |-> EmptyMap,
          concept_index |-> EmptyIndex]
    ELSE [status |-> "ok", roles |-> built.roles,
          standard_statement_map |-> build_statement_map(EmptyMap, built.roles, 1),
          concept_index |-> build_concept_index(EmptyIndex, built.roles, 1)]

\* XBRLPresentation.parse(xml_string): the presentation it returns, or the
\* exception it raises
parse(blocks) == Indexed(ParseBlocks(blocks, 1, <<>>))

-----------------------------------------------------------------------------
(* The queries.                                                             *)

\* what a call gives its caller: a value, Python's None, or nothing at all
\* when the call never returns
Value(v) == [kind |-> "value", value |-> v]

NoneResult == [kind |-> "None", value |-> <<>>]

NoReturn == [kind |-> "hangs", value |-> <<>>]

NoResult == [kind |-> "none", value |-> <<>>]

\* a variant that tries the prefixes in another order
NamespacesDeiFirst == <<Dei, IfrsFull, UsGaap>>

\* for namespace in ['us-gaap', 'ifrs-full', 'dei']
Namespaces == <<UsGaap, IfrsFull, Dei>>

\* a variant without the final self.concept_index.get(concept, [])
get_roles_containing_concept_no_exact(index, concept) ==
    LET found(i) == Namespaced(Namespaces[i], concept) \in DOMAIN index
    IN  IF ~Contains(concept, "_") /\ \E i \in 1..Len(Namespaces) : found(i)
        THEN index[Namespaced(Namespaces[
                 CHOOSE i \in 1..Len(Namespaces) : found(i) /\ \A j \in 1..(i-1) : ~found(j)],
                 concept)]
        ELSE <<>>

\* XBRLPresentation.get_roles_containing_concept
get_roles_containing_concept(index, concept) ==
    LET found(i) == Namespaced(Namespaces[i], concept) \in DOMAIN index
    IN  IF ~Contains(concept, "_") /\ \E i \in 1..Len(Namespaces) : found(i)
        THEN index[Namespaced(Namespaces[
                 CHOOSE i \in 1..Len(Namespaces) : found(i) /\ \A j \in 1..(i-1) : ~found(j)],
                 concept)]
        ELSE IF concept \in DOMAIN index THEN index[concept] ELSE <<>>

\* a variant of the lookup that reads the defaultdict with [key], which
\* inserts a key that is absent
dict_after_getitem(index, key) ==
    IF key \in DOMAIN index THEN index
    ELSE [c \in DOMAIN index \cup {key} |-> IF c = key THEN <<>> ELSE index[c]]

\* self.concept_index.get(key, []): the defaultdict afterwards; get inserts nothing
dict_after_get(index, key) == index

\* concept_index after get_roles_containing_concept(concept): the `in` tests
\* and the read of a key that is present insert nothing, the final get is
\* reached when no namespaced key was returned
index_after_lookup(index, concept) ==
    IF ~Contains(concept, "_")
         /\ \E i \in 1..Len(Namespaces) : Namespaced(Namespaces[i], concept) \in DOMAIN index
    THEN index
    ELSE dict_after_get(index, concept)

\* XBRLPresentation.get_role_by_standard_name: dict.get, None for a name without entry
get_role_by_standard_name(map, standard_name) ==
    IF standard_name \in DOMAIN map THEN Value(map[standard_name]) ELSE NoneResult

NodeType(tree, n) == node_type(Element(tree, n).concept)

\* find_axes(element) of the module-level get_axes_for_role
RECURSIVE find_axes(_, _), find_axes_all(_, _, _)
find_axes_all(tree, kids, j) ==
    IF j > Len(kids) THEN <<>>
    ELSE find_axes(tree, kids[j]) \o find_axes_all(tree, kids, j + 1)

\* a variant that collects the axes of a table and goes on below the table
find_axes_descending(tree, n) ==
    (IF NodeType(tree, n) = "Table"
     THEN SelectSeq(Children(tree, n), LAMBDA c : NodeType(tree, c) = "Axis")
     ELSE <<>>) \o find_axes_all(tree, Children(tree, n), 1)

find_axes(tree, n) ==
    IF NodeType(tree, n) = "Table"
    THEN SelectSeq(Children(tree, n), LAMBDA c : NodeType(tree, c) = "Axis")
    ELSE find_axes_all(tree, Children(tree, n), 1)

\* the module-level get_axes_for_role(role), role a PresentationElement
get_axes_for_role(tree, n) == find_axes(tree, n)

\* XBRLPresentation.get_axes_for_role(role), role a role name: a role that is
\* not in roles falls off the end of the method, which returns None
method_get_axes_for_role(rs, role) ==
    IF HasRole(rs, role) THEN Value(get_axes_for_role(rs[RoleIndex(rs, role)], 0))
    ELSE NoneResult

\* `role in self.roles` for a PresentationElement: the class defines neither
\* __eq__ nor __hash__, so an element is equal to no key of the dict
ElementInRoles(rs, tree, n) == FALSE

\* XBRLPresentation.get_axes_for_role(role), role a PresentationElement
method_get_axes_for_role_element(rs, tree, n) ==
    IF ElementInRoles(rs, tree, n) THEN Value(get_axes_for_role(tree, n)) ELSE NoneResult

\* a variant that takes the members under every child of the axis, Domain or not
get_members_for_axis_any_child(tree, axis) ==
    LET kids == Children(tree, axis)
        members(d) == SelectSeq(Children(tree, d), LAMBDA m : NodeType(tree, m) = "Member")
        RECURSIVE collect(_)
        collect(j) == IF j > Len(kids) THEN <<>> ELSE members(kids[j]) \o collect(j + 1)
    IN  collect(1)

\* the module-level get_members_for_axis(axis_element)
get_members_for_axis(tree, axis) ==
    LET domains == SelectSeq(Children(tree, axis), LAMBDA d : NodeType(tree, d) = "Domain")
        members(d) == SelectSeq(Children(tree, d), LAMBDA m : NodeType(tree, m) = "Member")
        RECURSIVE collect(_)
        collect(j) == IF j > Len(domains) THEN <<>> ELSE members(domains[j]) \o collect(j + 1)
    IN  collect(1)

\* find_line_items(element) of get_statement_line_items
RECURSIVE find_line_items(_, _), find_line_items_all(_, _, _)
find_line_items_all(tree, kids, j) ==
    IF j > Len(kids) THEN <<>>
    ELSE find_line_items(tree, kids[j]) \o find_line_items_all(tree, kids, j + 1)

\* a variant without the break: the children of every LineItems child of a table
find_line_items_no_break(tree, n) ==
    IF NodeType(tree, n) = "Table"
    THEN LET kids == Children(tree, n)
             RECURSIVE every(_)
             every(j) == IF j > Len(kids) THEN <<>>
                         ELSE (IF NodeType(tree, kids[j]) = "LineItems"
                               THEN Children(tree, kids[j]) ELSE <<>>) \o every(j + 1)
         IN  every(1)
    ELSE find_line_items_all(tree, Children(tree, n), 1)

find_line_items(tree, n) ==
    IF NodeType(tree, n) = "Table"
    THEN LET kids == Children(tree, n)
             isLI(j) == NodeType(tree, kids[j]) = "LineItems"
         IN  IF \E j \in 1..Len(kids) : isLI(j)
             THEN Children(tree, kids[CHOOSE j \in 1..Len(kids) :
                                          isLI(j) /\ \A k \in 1..(j-1) : ~isLI(k)])
             ELSE <<>>
    ELSE find_line_items_all(tree, Children(tree, n), 1)

\* XBRLPresentation.get_statement_line_items(role), role a role name
get_statement_line_items(rs, role) ==
    IF HasRole(rs, role) THEN find_line_items(rs[RoleIndex(rs, role)], 0) ELSE <<>>

\* what a call that never returns "returns"
Hangs == -2

\* get_root_element(element): `while current.parent: current = current.parent`.
\* A walk longer than the number of elements is on a cycle of parent links
\* and never ends.
RECURSIVE FollowParent(_, _, _)
FollowParent(tree, current, steps) ==
    IF Element(tree, current).parent = NoParent THEN current
    ELSE IF steps > Len(tree.el) THEN Hangs
    ELSE FollowParent(tree, Element(tree, current).parent, steps + 1)

get_root_element(tree, element) == FollowParent(tree, element, 0)

\* XBRLPresentation.list_roles
list_roles(rs) == [i \in 1..Len(rs) |-> rs[i].role]

-----------------------------------------------------------------------------
(* The state machine: a document is parsed once, then queried.              *)

NoCall == [op |-> "none", arg |-> <<>>]

\* two blocks: the first has one locator (of concept P, A or us-gaap_A), the
\* second some of four locators of
\* the same local name in different namespaces, a role of its own, the role of
\* the first block or no role, and no arcs, two arcs that leave the locators
\* u and d without a top-level element, or one arc without a `to` attribute
LUG == <<"u">>
LIF == <<"i">>
LDE == <<"d">>
LBA == <<"b">>

LookupLocs ==
    << Loc(LUG, Href(Namespaced(UsGaap, <<"A">>))),
       Loc(LIF, Href(Namespaced(IfrsFull, <<"A">>))),
       Loc(LDE, Href(Namespaced(Dei, <<"A", "_", "3">>))),
       Loc(LBA, Href(<<"A", "_", "3">>)) >>

SubSeqs(s) ==
    {SelectSeq([i \in 1..Len(s) |-> i], LAMBDA i : i \in keep) : keep \in SUBSET (1..Len(s))}

LookupDocs ==
    {<< [role |-> RoleA, locs |-> <<first>>, arcs |-> <<>>],
        [role |-> role,
         locs |-> [j \in 1..Len(pick) |-> LookupLocs[pick[j]]],
         arcs |-> arcs] >> :
        first \in {Loc(LP, Href(<<"P">>)), Loc(LK, Href(<<"A">>)),
                   Loc(LA1, Href(Namespaced(UsGaap, <<"A", "_", "1">>)))},
        role \in {RoleB, RoleA, None},
        pick \in SubSeqs(LookupLocs),
        arcs \in {<<>>,
                  <<Arc(LUG, LDE, <<"1">>, None), Arc(LDE, LUG, <<"1">>, None)>>,
                  <<Arc(LUG, None, <<"1">>, None)>>}}

\* a statement: a group G, tables T1, T2, T3, axes X1, X2, X3, a domain D1,
\* members M1, M2, M3, line-items nodes L1, L2 and line items I1, I3
StatementLocs ==
    << Loc(<<"G">>, Href(<<"G", "r", "p">>)),
       Loc(<<"T", "1">>, Href(<<"T", "1", "T", "a", "b", "l", "e">>)),
       Loc(<<"X", "1">>, Href(<<"X", "1", "A", "x", "i", "s">>)),
       Loc(<<"D", "1">>, Href(<<"D", "1", "D", "o", "m", "a", "i", "n">>)),
       Loc(<<"M", "1">>, Href(<<"M", "1", "M", "e", "m", "b", "e", "r">>)),
       Loc(<<"M", "3">>, Href(<<"M", "3", "M", "e", "m", "b", "e", "r">>)),
       Loc(<<"M", "2">>, Href(<<"M", "2", "M", "e", "m", "b", "e", "r">>)),
       Loc(<<"T", "2">>, Href(<<"T", "2", "T", "a", "b", "l", "e">>)),
       Loc(<<"X", "2">>, Href(<<"X", "2", "A", "x", "i", "s">>)),
       Loc(<<"L", "1">>, Href(<<"L", "1", "L", "i", "n", "e", "I", "t", "e", "m", "s">>)),
       Loc(<<"I", "1">>, Href(<<"I", "1">>)),
       Loc(<<"L", "2">>, Href(<<"L", "2", "L", "i", "n", "e", "I", "t", "e", "m", "s">>)),
       Loc(<<"I", "3">>, Href(<<"I", "3">>)),
       Loc(<<"T", "3">>, Href(<<"T", "3", "T", "a", "b", "l", "e">>)),
       Loc(<<"X", "3">>, Href(<<"X", "3", "A", "x", "i", "s">>)) >>

\* the arcs a statement can have, in document order: X1 -> D1, D1 -> M1,
\* T2 -> X2, L1 -> I1 and L2 -> I3 are in every statement; G -> T1, T1 -> X1,
\* M1 -> M3, X1 -> M2, T1 -> T2, T1 -> L1, T1 -> L2 and T3 -> X3 in some
StatementArcs ==
    << Arc(<<"G">>, <<"T", "1">>, <<"1">>, None),
       Arc(<<"T", "1">>, <<"X", "1">>, <<"1">>, None),
       Arc(<<"X", "1">>, <<"D", "1">>, <<"1">>, None),
       Arc(<<"D", "1">>, <<"M", "1">>, <<"1">>, None),
       Arc(<<"M", "1">>, <<"M", "3">>, <<"1">>, None),
       Arc(<<"X", "1">>, <<"M", "2">>, <<"1">>, None),
       Arc(<<"T", "1">>, <<"T", "2">>, <<"1">>, None),
       Arc(<<"T", "2">>, <<"X", "2">>, <<"1">>, None),
       Arc(<<"T", "1">>, <<"L", "1">>, <<"1">>, None),
       Arc(<<"L", "1">>, <<"I", "1">>, <<"1">>, None),
       Arc(<<"T", "1">>, <<"L", "2">>, <<"1">>, None),
       Arc(<<"L", "2">>, <<"I", "3">>, <<"1">>, None),
       Arc(<<"T", "3">>, <<"X", "3">>, <<"1">>, None) >>

FixedArcs == {3, 4, 8, 10, 12}

StatementDocs ==
    {<<[role |-> RoleA, locs |-> StatementLocs,
        arcs |-> [j \in 1..Len(pick) |-> StatementArcs[pick[j]]]]>> :
        pick \in {q \in SubSeqs(StatementArcs) : FixedArcs \subseteq SeqRange(q)}}

\* role URIs: two that normalize to variations of BALANCE_SHEET, one to a
\* variation of COVER_PAGE (its last part cut at the first '.'), and RoleA,
\* which matches no standard statement
RoleBalanceSheet == <<"h", "t", "t", "p", ":", "/", "/", "x", "/", "r", "o", "l", "e", "/", "B", "a", "l", "a", "n", "c", "e", "S", "h", "e", "e", "t">>
RoleBalanceSheets == <<"h", "t", "t", "p", ":", "/", "/", "x", "/", "r", "o", "l", "e", "/", "b", "a", "l", "a", "n", "c", "e", "-", "s", "h", "e", "e", "t", "s", ".", "v", "2">>
RoleCover == <<"h", "t", "t", "p", ":", "/", "/", "x", "/", "r", "o", "l", "e", "/", "C", "o", "v", "e", "r", ".", "P", "a", "g", "e">>

MapRoles == {RoleA, RoleBalanceSheet, RoleBalanceSheets, RoleCover}

\* one to MaxBlocks blocks, each with a role of MapRoles and two top-level
\* locators of the same concept
MapDocs ==
    UNION {{[b \in 1..n |-> [role |-> rs[b],
                             locs |-> <<Loc(LP, Href(<<"P">>)), Loc(LK, Href(<<"P">>))>>,
                             arcs |-> <<>>]] : rs \in [1..n -> MapRoles]} : n \in 1..MaxBlocks}

\* arcs from P to the two locators of normalized concept us-gaap_A, each
\* with and without a preferredLabel attribute
PreferredLabelArcs ==
    { Arc(LP, LA1, <<"1">>, <<"s">>),
      Arc(LP, LA1, <<"1">>, None),
      Arc(LP, LA2, <<"2">>, <<"t">>),
      Arc(LP, LA2, <<"2">>, None) }

\* one block of role A with the locators of a tree block and two of these
\* arcs
PreferredLabelDocs ==
    {<<[role |-> RoleA, locs |-> TreeLocs, arcs |-> <<first, second>>]>> :
        first \in PreferredLabelArcs, second \in PreferredLabelArcs}

Docs == TreeDocs \cup LookupDocs \cup StatementDocs \cup MapDocs \cup PreferredLabelDocs

\* the arguments of the queries
QueryConcepts ==
    {<<"A">>, <<"P">>, <<"Q">>, Namespaced(UsGaap, <<"A">>), Namespaced(Dei, <<"A">>)}

QueryRoles == {RoleA, RoleB, RoleZ}

\* the standard names asked for: those of STANDARD_STATEMENTS and one that is none
StandardNames == {STANDARD_STATEMENTS[i].standard_name : i \in 1..Len(STANDARD_STATEMENTS)} \cup {"OTHER"}

\* no CurrentFilings and no Filings object is in use
NoCurrent == [made |-> FALSE, _start |-> 1, _page_size |-> 40, data |-> <<>>]

NoFilings ==
    /\ feed = 0
    /\ current_filings = NoCurrent
    /\ requests = <<>>
    /\ filings = [n |-> 0, len |-> 0]
    /\ loops = <<>>

Init ==
    /\ doc \in Docs
    /\ status = "new"
    /\ roles = <<>>
    /\ skipped_roles = <<>>
    /\ standard_statement_map = EmptyMap
    /\ concept_index = EmptyIndex
    /\ call = NoCall
    /\ result = NoResult
    /\ NoFilings

Returned(p) ==
    /\ status' = p.status
    /\ roles' = p.roles
    /\ standard_statement_map' = p.standard_statement_map
    /\ concept_index' = p.concept_index

\* presentation = XBRLPresentation.parse(xml_string)
Parse ==
    /\ status = "new"
    /\ Returned(parse(doc))
    /\ UNCHANGED <<doc, skipped_roles, call, result>>
    /\ UNCHANGED filings_state

\* a query is called on the presentation parse returned
CanCall == status = "ok" /\ call.op = "none"

Answer(op, arg, value) ==
    /\ call' = [op |-> op, arg |-> arg]
    /\ result' = value
    /\ UNCHANGED presentation
    /\ UNCHANGED filings_state

GetRolesContainingConcept ==
    /\ CanCall
    /\ \E c \in QueryConcepts :
          /\ call' = [op |-> "get_roles_containing_concept", arg |-> c]
          /\ result' = Value(get_roles_containing_concept(concept_index, c))
          /\ concept_index' = index_after_lookup(concept_index, c)
    /\ UNCHANGED <<doc, status, roles, skipped_roles, standard_statement_map>>
    /\ UNCHANGED filings_state

GetRoleByStandardName ==
    /\ CanCall
    /\ \E n \in StandardNames :
          Answer("get_role_by_standard_name", n,
                 get_role_by_standard_name(standard_statement_map, n))

\* XBRLPresentation.get_axes_for_role called with the element roles[r]
GetAxesForRoleElement ==
    /\ CanCall
    /\ \E i \in 1..Len(roles) :
          Answer("get_axes_for_role_element", <<i, 0>>,
                 method_get_axes_for_role_element(roles, roles[i], 0))

\* the module-level get_axes_for_role called with an element
GetAxes ==
    /\ CanCall
    /\ \E i \in 1..Len(roles) : \E n \in Reachable(roles[i]) :
          Answer("get_axes", <<i, n>>, Value(get_axes_for_role(roles[i], n)))

GetAxesForRole ==
    /\ CanCall
    /\ \E r \in QueryRoles :
          Answer("get_axes_for_role", r, method_get_axes_for_role(roles, r))

GetStatementLineItems ==
    /\ CanCall
    /\ \E r \in QueryRoles :
          Answer("get_statement_line_items", r, Value(get_statement_line_items(roles, r)))

GetMembersForAxis ==
    /\ CanCall
    /\ \E i \in 1..Len(roles) : \E n \in Reachable(roles[i]) :
          Answer("get_members_for_axis", <<i, n>>, Value(get_members_for_axis(roles[i], n)))

GetRootElement ==
    /\ CanCall
    /\ \E i \in 1..Len(roles) : \E n \in Reachable(roles[i]) :
          Answer("get_root_element", <<i, n>>,
                 LET root == get_root_element(roles[i], n)
                 IN  IF root = Hangs THEN NoReturn ELSE Value(root))

ListRoles ==
    /\ CanCall
    /\ Answer("list_roles", <<>>, Value(list_roles(roles)))

GetSkippedRoles ==
    /\ CanCall
    /\ Answer("get_skipped_roles", <<>>, Value(skipped_roles))

\* the call returns to its caller
Return ==
    /\ call.op # "none"
    /\ result.kind # "hangs"
    /\ call' = NoCall
    /\ result' = NoResult
    /\ UNCHANGED presentation
    /\ UNCHANGED filings_state

Next ==
    \/ Parse
    \/ GetRolesContainingConcept
    \/ GetRoleByStandardName
    \/ GetAxesForRoleElement
    \/ GetAxes
    \/ GetAxesForRole
    \/ GetStatementLineItems
    \/ GetMembersForAxis
    \/ GetRootElement
    \/ ListRoles
    \/ GetSkippedRoles
    \/ Return

Spec == Init /\ [][Next]_vars

-----------------------------------------------------------------------------
(* normalize_concept on its own: the function is applied to a concept       *)
(* string, as parse applies it to the fragment of an href and to a label.   *)

ConceptChars == {"A", "_", "1", "2"}

ConceptStrings == UNION {[1..n -> ConceptChars] : n \in 0..MaxConceptLen}

InitNormalize ==
    /\ doc = <<>>
    /\ status = "new"
    /\ roles = <<>>
    /\ skipped_roles = <<>>
    /\ standard_statement_map = EmptyMap
    /\ concept_index = EmptyIndex
    /\ call \in {[op |-> "normalize_concept", arg |-> x] : x \in ConceptStrings}
    /\ result = NoResult
    /\ NoFilings

\* normalized_concept = normalize_concept(concept)
Normalize ==
    /\ call.op = "normalize_concept"
    /\ result = NoResult
    /\ result' = Value(normalize_concept(call.arg))
    /\ UNCHANGED <<presentation, call>>
    /\ UNCHANGED filings_state

NextNormalize == Normalize

SpecNormalize == InitNormalize /\ [][NextNormalize]_vars

-----------------------------------------------------------------------------
(* node_type on its own: the property is read on an element whose concept   *)
(* is made of the words the patterns look for.                              *)

MaxParts == 3

ConceptParts ==
    { <<"h", "t", "t", "p", ":", "/", "/">>,
      <<"r", "o", "l", "e">>,
      <<"S", "t", "a", "t", "e", "m", "e", "n", "t">>,
      <<"T", "a", "b", "l", "e">>,
      <<"L", "i", "n", "e", "I", "t", "e", "m", "s">>,
      <<"S", "c", "h", "e", "d", "u", "l", "e">>,
      <<"A", "x", "i", "s">>,
      <<"[", "A", "x", "i", "s", "]">>,
      <<"M", "e", "m", "b", "e", "r">>,
      <<"[", "M", "e", "m", "b", "e", "r", "]">>,
      <<"D", "o", "m", "a", "i", "n">>,
      <<"[", "d", "o", "m", "a", "i", "n", "]">>,
      <<"A", "b", "s", "t", "r", "a", "c", "t">>,
      <<"[", "a", "b", "s", "t", "r", "a", "c", "t", "]">> }

RECURSIVE Concat(_)
Concat(parts) == IF parts = <<>> THEN <<>> ELSE Head(parts) \o Concat(Tail(parts))

\* the concepts made of up to n of these words
TypeConcepts(n) == {Concat(parts) : parts \in UNION {[1..k -> ConceptParts] : k \in 0..n}}

InitNodeType ==
    /\ doc = <<>>
    /\ status = "new"
    /\ roles = <<>>
    /\ skipped_roles = <<>>
    /\ standard_statement_map = EmptyMap
    /\ concept_index = EmptyIndex
    /\ call \in {[op |-> "node_type", arg |-> x] : x \in TypeConcepts(MaxParts)}
    /\ result = NoResult
    /\ NoFilings

\* element.node_type, for an element of that concept
GetNodeType ==
    /\ call.op = "node_type"
    /\ result = NoResult
    /\ result' = Value(node_type(call.arg))
    /\ UNCHANGED <<presentation, call>>
    /\ UNCHANGED filings_state

NextNodeType == GetNodeType

SpecNodeType == InitNodeType /\ [][NextNodeType]_vars

-----------------------------------------------------------------------------
(* edgar/_filings.py: paging through the current filings.  The feed holds   *)
(* `feed` entries at the offsets 0..feed-1; a page request names a start    *)
(* offset and a count and returns the entries the feed has from there.      *)

MaxFeed == 35

MaxRequests == 5

\* page_size arguments: two of the sizes the feed knows and one it does not
PageSizeArgs == {10, 20, 7}

\* page_size if page_size in [10, 20, 40, 80, 100] else 40
page_size_of(page_size) == IF page_size \in {10, 20, 40, 80, 100} THEN page_size ELSE 40

Min(a, b) == IF a < b THEN a ELSE b

Max(a, b) == IF a > b THEN a ELSE b

\* get_current_entries_on_page(count, start): the offsets of the entries
\* the feed returns
get_current_entries_on_page(count, start) ==
    [i \in 1..Max(0, Min(page_size_of(count), feed - start)) |-> start + i - 1]

Requested(op, start, count) ==
    requests' = Append(requests,
                       [op |-> op, start |-> start, count |-> count,
                        returned |-> Len(get_current_entries_on_page(count, start))])

NoPresentation ==
    /\ doc = <<>>
    /\ status = "new"
    /\ roles = <<>>
    /\ skipped_roles = <<>>
    /\ standard_statement_map = EmptyMap
    /\ concept_index = EmptyIndex
    /\ call = NoCall
    /\ result = NoResult

InitPaging ==
    /\ NoPresentation
    /\ feed \in 0..MaxFeed
    /\ current_filings = NoCurrent
    /\ requests = <<>>
    /\ filings = [n |-> 0, len |-> 0]
    /\ loops = <<>>

\* get_current_filings(page_size=...): the first page is requested at start
\* 0, and the CurrentFilings object is made with the default start = 1
GetCurrentFilings ==
    /\ ~current_filings.made
    /\ \E page_size \in PageSizeArgs :
          /\ Requested("get_current_filings", 0, page_size_of(page_size))
          /\ current_filings' = [made |-> TRUE, _start |-> 1, _page_size |-> page_size_of(page_size),
                          data |-> get_current_entries_on_page(page_size_of(page_size), 0)]
    /\ UNCHANGED <<presentation, call, result, feed, filings, loops>>

\* the object after the page at start was requested: when the feed returned
\* entries, they become its data and start its _start
Turned(start) ==
    IF get_current_entries_on_page(current_filings._page_size, start) # <<>>
    THEN [current_filings EXCEPT
            !.data = get_current_entries_on_page(current_filings._page_size, start),
            !._start = start]
    ELSE current_filings

\* CurrentFilings.next(): None without a request when the page is short,
\* None after the request when the feed returns nothing
CurrentNext ==
    /\ current_filings.made
    /\ Len(requests) < MaxRequests
    /\ IF Len(current_filings.data) < current_filings._page_size
       THEN UNCHANGED <<current_filings, requests>>
       ELSE /\ Requested("next", current_filings._start + Len(current_filings.data),
                         current_filings._page_size)
            /\ current_filings' = Turned(current_filings._start + Len(current_filings.data))
    /\ UNCHANGED <<presentation, call, result, feed, filings, loops>>

\* CurrentFilings.previous(): None without a request when _start is 1
CurrentPrevious ==
    /\ current_filings.made
    /\ Len(requests) < MaxRequests
    /\ IF current_filings._start = 1
       THEN UNCHANGED <<current_filings, requests>>
       ELSE /\ Requested("previous", Max(1, current_filings._start - current_filings._page_size),
                         current_filings._page_size)
            /\ current_filings' =
                 Turned(Max(1, current_filings._start - current_filings._page_size))
    /\ UNCHANGED <<presentation, call, result, feed, filings, loops>>

NextPaging ==
    \/ GetCurrentFilings
    \/ CurrentNext
    \/ CurrentPrevious

SpecPaging == InitPaging /\ [][NextPaging]_vars

-----------------------------------------------------------------------------
(* edgar/_filings.py: iterating over a Filings object.  Each `for` loop     *)
(* calls iter() once and then next() until StopIteration.                   *)

MaxFilings == 3

Loops == 2

InitIteration ==
    /\ NoPresentation
    /\ feed = 0
    /\ current_filings = NoCurrent
    /\ requests = <<>>
    /\ filings \in {[n |-> 0, len |-> l] : l \in 0..MaxFilings}
    /\ loops = [i \in 1..Loops |-> [pc |-> "idle", yielded |-> <<>>]]

\* Filings.__iter__: self.n = 0; return self
Iter(i) ==
    /\ loops[i].pc = "idle"
    /\ filings' = [filings EXCEPT !.n = 0]
    /\ loops' = [loops EXCEPT ![i].pc = "iterating"]
    /\ UNCHANGED <<presentation, call, result, feed, current_filings, requests>>

\* Filings.__next__: the filing at index self.n, or StopIteration
IterNext(i) ==
    /\ loops[i].pc = "iterating"
    /\ IF filings.n < filings.len
       THEN /\ loops' = [loops EXCEPT ![i].yielded = Append(@, filings.n)]
            /\ filings' = [filings EXCEPT !.n = @ + 1]
       ELSE /\ loops' = [loops EXCEPT ![i].pc = "done"]
            /\ UNCHANGED filings
    /\ UNCHANGED <<presentation, call, result, feed, current_filings, requests>>

NextIteration ==
    \/ \E i \in 1..Loops : Iter(i)
    \/ \E i \in 1..Loops : IterNext(i)

SpecIteration == InitIteration /\ [][NextIteration]_vars

-----------------------------------------------------------------------------
(* The claims.                                                              *)

\* the places <<m, j>> where element n stands in the children list of an
\* element m reachable from the role element
Places(tree, n) ==
    {<<m, j>> \in Reachable(tree) \X (1..Len(tree.el)) :
        j <= Len(Children(tree, m)) /\ Children(tree, m)[j] = n}

\* C1: after parse, every element reachable from a role root, other than the
\* root, stands in exactly one children list, exactly once, and its parent
\* is the element that owns that list; the role root has parent None.
C1_TreeWellFormed ==
    status = "ok" =>
        \A i \in 1..Len(roles) :
            /\ roles[i].root.parent = NoParent
            /\ \A n \in Reachable(roles[i]) \ {0} :
                  /\ Cardinality(Places(roles[i], n)) = 1
                  /\ \A pl \in Places(roles[i], n) : Element(roles[i], n).parent = pl[1]

\* C2: for every element reachable from roles[r], get_root_element returns,
\* and returns the root element roles[r].
C2_RootElementFound ==
    call.op = "get_root_element" => result = Value(0)

\* two entries of the children list of n have equal normalized concepts
DuplicateChildren(tree, n) ==
    \E j, k \in 1..Len(Children(tree, n)) :
        /\ j < k
        /\ normalize_concept(Element(tree, Children(tree, n)[j]).concept)
             = normalize_concept(Element(tree, Children(tree, n)[k]).concept)

\* C3 as stated: after parse no element reachable from a role root, the root
\* included, has two children of equal normalized concept.
C3_NoDuplicateChildren ==
    status = "ok" =>
        \A i \in 1..Len(roles) : \A n \in Reachable(roles[i]) : ~DuplicateChildren(roles[i], n)

\* the n-th arc of the block's hierarchy loop appended its child to the
\* children list of its parent
Appended(block, n) ==
    LET arc == ParseArcs(block.arcs)[n]
        keys == BlockLocs(block).keys
    IN  /\ HasKey(keys, arc.parent_label)
        /\ HasKey(keys, arc.child_label)
        /\ HierarchyAfter(block, n)[KeyIndex(keys, arc.parent_label)].children
             = Append(HierarchyAfter(block, n - 1)[KeyIndex(keys, arc.parent_label)].children,
                      KeyIndex(keys, arc.child_label))

\* the children the parent of the n-th arc had before that arc
SiblingsBefore(block, n) ==
    HierarchyAfter(block, n - 1)[
        KeyIndex(BlockLocs(block).keys, ParseArcs(block.arcs)[n].parent_label)].children

\* C3 as amended: in a parse that returns, an arc of the hierarchy loop appends its child to the
\* parent's children list only when no element already in that list has the
\* child's normalized concept (the children of a role root and the children
\* a merge copies are not compared).
\* the arc took `before` to `after` by appending its child to the children of
\* its parent, and no element already there has the child's normalized concept
AppendChecked(before, after, parent, child) ==
    after[parent].children = Append(before[parent].children, child) =>
        \A j \in 1..Len(before[parent].children) :
            normalize_concept(after[before[parent].children[j]].concept)
              # normalize_concept(after[child].concept)

\* every arc of the hierarchy loop from the n-th on, el being the elements
\* the n-th arc finds
RECURSIVE ArcsChecked(_, _, _, _)
ArcChecked(keys, el, after, arcs, n) ==
    /\ (HasKey(keys, arcs[n].parent_label) /\ HasKey(keys, arcs[n].child_label)) =>
          AppendChecked(el, after, KeyIndex(keys, arcs[n].parent_label),
                        KeyIndex(keys, arcs[n].child_label))
    /\ ArcsChecked(keys, after, arcs, n + 1)

ArcsChecked(keys, el, arcs, n) ==
    n > Len(arcs) \/ ArcChecked(keys, el, ApplyArc(keys, el, arcs[n]), arcs, n)

AppendsChecked(blocks) ==
    \A b \in 1..Len(blocks) : BlockBuilds(blocks[b]) =>
        ArcsChecked(BlockLocs(blocks[b]).keys, BlockLocs(blocks[b]).el,
                    ParseArcs(blocks[b].arcs), 1)

C3_AppendChecksConcept ==
    [][(status = "new" /\ status' = "ok") => AppendsChecked(doc)]_vars

\* C3's case: parse returned for a block in which an arc appended a child to
\* a children list that already held an element
C3_Witness ==
    /\ status = "ok"
    /\ \E b \in 1..Len(doc) :
          /\ BlockBuilds(doc[b])
          /\ \E n \in 1..Len(doc[b].arcs) :
                Appended(doc[b], n) /\ SiblingsBefore(doc[b], n) # <<>>

\* the four arcs of the merge case: P -> A_1 and P -> A_22, two locators of
\* normalized concept us-gaap_A, each with a child of its own
MergeArcs ==
    { Arc(LP, LA1, <<"1">>, None), Arc(LP, LA2, <<"2">>, <<"t">>),
      Arc(LA1, LK, None, None), Arc(LA2, LL, <<"1">>, None) }

IsMergeDoc ==
    /\ Len(doc) = 1
    /\ doc[1].locs = TreeLocs
    /\ Len(doc[1].arcs) = Cardinality(MergeArcs)
    /\ SeqRange(doc[1].arcs) = MergeArcs

\* the element of a tree block made for a label
TreeNode(label) == KeyIndex(ParseLocs(TreeLocs, 1, [keys |-> <<>>, el |-> <<>>]).keys, label)

\* C4: two arcs from one parent to two locators of equal normalized concept,
\* each with child arcs of its own, give one child under that parent, whose
\* children are those of both locators, in every order of the four arcs.
C4_MergeConcatenates ==
    (status = "ok" /\ IsMergeDoc) =>
        /\ Len(Children(roles[1], TreeNode(LP))) = 1
        /\ Children(roles[1], Children(roles[1], TreeNode(LP))[1])
             \in { <<TreeNode(LK), TreeNode(LL)>>, <<TreeNode(LL), TreeNode(LK)>> }

\* C5: parse does not raise because of one malformed loc or arc (a missing
\* label, href, from or to, a missing or unusable order).
C5_NeverRaises ==
    status \notin {"ValueError", "TypeError"}

\* the roles of the blocks that have a role and yield no top-level element
RolesWithoutTopLevel ==
    {doc[b].role : b \in {c \in 1..Len(doc) : Truthy(doc[c].role) /\ ~ParseBlock(doc[c]).add}}

\* C6: after parse the roles whose block yields no top-level element are
\* those listed in skipped_roles, they are absent from roles, and
\* get_skipped_roles returns them.
C6_SkippedRolesListed ==
    status = "ok" =>
        /\ SeqRange(skipped_roles) = RolesWithoutTopLevel
        /\ \A r \in RolesWithoutTopLevel : ~HasRole(roles, r)
        /\ call.op = "get_skipped_roles" => SeqRange(result.value) = RolesWithoutTopLevel

\* the key under which get_roles_containing_concept may find concept c
ConceptIndexed(c) ==
    \/ c \in DOMAIN concept_index
    \/ ~Contains(c, "_") /\ \E i \in 1..Len(Namespaces) :
          Namespaced(Namespaces[i], c) \in DOMAIN concept_index

\* C7: a lookup with an unknown key returns an empty list: get_axes_for_role
\* and get_statement_line_items with a role name that is not in roles,
\* get_roles_containing_concept with a concept that is not indexed.
C7_UnknownKeyGivesEmptyList ==
    /\ (call.op \in {"get_axes_for_role", "get_statement_line_items"}
          /\ ~HasRole(roles, call.arg)) => result = Value(<<>>)
    /\ (call.op = "get_roles_containing_concept" /\ ~ConceptIndexed(call.arg))
          => result = Value(<<>>)

\* C8 as stated: get_roles_containing_concept(c) returns the entry stored
\* under the exact key c whenever that key exists.
C8_ExactKeyFirst ==
    (call.op = "get_roles_containing_concept" /\ call.arg \in DOMAIN concept_index)
        => result = Value(concept_index[call.arg])

\* one of us-gaap_c, ifrs-full_c, dei_c is a key of the index
NamespacedKeyExists(c) ==
    \E i \in 1..Len(Namespaces) : Namespaced(Namespaces[i], c) \in DOMAIN concept_index

\* C8 as amended: get_roles_containing_concept(c) returns the entry stored
\* under the exact key c whenever that key exists and either c contains an
\* underscore or none of us-gaap_c, ifrs-full_c, dei_c is a key; a c with an
\* underscore that is no key gives the empty list, the prefixed keys being
\* consulted only for a c without underscore.
C8_ExactKeyUnlessNamespaced ==
    call.op = "get_roles_containing_concept" =>
        /\ (call.arg \in DOMAIN concept_index
               /\ (Contains(call.arg, "_") \/ ~NamespacedKeyExists(call.arg)))
              => result = Value(concept_index[call.arg])
        /\ (Contains(call.arg, "_") /\ call.arg \notin DOMAIN concept_index)
              => result = Value(<<>>)

\* C8's case: the exact key of a concept without underscore is returned
\* where no prefixed key exists
C8_Witness ==
    /\ call.op = "get_roles_containing_concept"
    /\ call.arg = <<"A">>
    /\ call.arg \in DOMAIN concept_index
    /\ ~NamespacedKeyExists(call.arg)
    /\ result = Value(concept_index[call.arg])
    /\ result.value # <<>>

\* C9: when c has no underscore and is no key of the index,
\* get_roles_containing_concept(c) returns the entry of the first key that
\* exists among us-gaap_c, ifrs-full_c, dei_c, in that order, and the empty
\* list when none exists.
C9_NamespaceFallback ==
    (/\ call.op = "get_roles_containing_concept"
     /\ ~Contains(call.arg, "_")
     /\ call.arg \notin DOMAIN concept_index)
        => result = Value(
              IF Namespaced(UsGaap, call.arg) \in DOMAIN concept_index
              THEN concept_index[Namespaced(UsGaap, call.arg)]
              ELSE IF Namespaced(IfrsFull, call.arg) \in DOMAIN concept_index
              THEN concept_index[Namespaced(IfrsFull, call.arg)]
              ELSE IF Namespaced(Dei, call.arg) \in DOMAIN concept_index
              THEN concept_index[Namespaced(Dei, call.arg)]
              ELSE <<>>)

\* C9's case: the concept A is no key, us-gaap_A and dei_A are keys with
\* different entries, and the call returned the entry of us-gaap_A
C9_Witness ==
    /\ call.op = "get_roles_containing_concept"
    /\ call.arg = <<"A">>
    /\ call.arg \notin DOMAIN concept_index
    /\ Namespaced(UsGaap, call.arg) \in DOMAIN concept_index
    /\ Namespaced(Dei, call.arg) \in DOMAIN concept_index
    /\ concept_index[Namespaced(UsGaap, call.arg)] # concept_index[Namespaced(Dei, call.arg)]
    /\ result = Value(concept_index[Namespaced(UsGaap, call.arg)])

\* C10: after parse, for every role r of roles and every element e reachable
\* from roles[r], r occurs in concept_index[e.concept], e.concept being the
\* concept the element has after all merges.
C10_IndexComplete ==
    status = "ok" =>
        \A i \in 1..Len(roles) : \A n \in Reachable(roles[i]) :
            /\ Element(roles[i], n).concept \in DOMAIN concept_index
            /\ roles[i].role \in SeqRange(concept_index[Element(roles[i], n).concept])

\* C10's case: an element below the top level whose concept a merge replaced
\* is indexed under its final concept
C10_Witness ==
    /\ status = "ok"
    /\ \E i \in 1..Len(roles) : \E n \in Reachable(roles[i]) \ {0} :
          /\ Element(roles[i], n).parent # 0
          /\ Element(roles[i], n).concept
               # normalize_concept(LastSplit(Element(roles[i], n).href, "#"))
          /\ roles[i].role \in SeqRange(concept_index[Element(roles[i], n).concept])

\* the number of positions of a depth-first walk from element n, n included,
\* whose element has concept c
RECURSIVE ConceptCount(_, _, _), ConceptCountAll(_, _, _, _)
ConceptCountAll(tree, kids, j, c) ==
    IF j > Len(kids) THEN 0
    ELSE ConceptCount(tree, kids[j], c) + ConceptCountAll(tree, kids, j + 1, c)

ConceptCount(tree, n, c) ==
    (IF Element(tree, n).concept = c THEN 1 ELSE 0)
      + ConceptCountAll(tree, Children(tree, n), 1, c)

\* the number of entries of concept_index[c] that are role r
Occurrences(c, r) ==
    IF c \in DOMAIN concept_index
    THEN Cardinality({k \in 1..Len(concept_index[c]) : concept_index[c][k] = r})
    ELSE 0

\* the concepts of the elements reachable from the role roots
ReachableConcepts ==
    UNION {{Element(roles[i], n).concept : n \in Reachable(roles[i])} : i \in 1..Len(roles)}

\* every role is listed under every concept once per position of its walk,
\* the roles in the order of roles
IndexCountsWalk ==
        /\ \A c \in DOMAIN concept_index \cup ReachableConcepts : \A i \in 1..Len(roles) :
              Occurrences(c, roles[i].role) = ConceptCount(roles[i], 0, c)
        /\ \A c \in DOMAIN concept_index : \A j, k \in 1..Len(concept_index[c]) :
              j < k => /\ HasRole(roles, concept_index[c][j])
                       /\ HasRole(roles, concept_index[c][k])
                       /\ RoleIndex(roles, concept_index[c][j])
                            <= RoleIndex(roles, concept_index[c][k])

\* C11: when parse returns, for every role r and concept c, r occurs in
\* concept_index[c] as many times as a depth-first walk of roles[r], root
\* included, has positions whose element has concept c (no deduplication),
\* and in each list the entries of an earlier role of roles precede those of
\* a later role.
C11_IndexCountsWalk ==
    [][(status = "new" /\ status' = "ok") => IndexCountsWalk']_vars

\* C11's case: a concept that two roles hold, the first of them at two
\* positions of its tree, is listed twice for the first role, then for the
\* second
C11_Witness ==
    /\ status = "ok"
    /\ Len(roles) >= 2
    /\ \E c \in DOMAIN concept_index :
          /\ Occurrences(c, roles[1].role) = 2
          /\ Occurrences(c, roles[2].role) >= 1
          /\ ConceptCount(roles[1], 0, c) = 2

\* the positions in roles of the roles whose URI's last path segment, cut at
\* the first '.', without its non-alphanumerics and uppercased, is one of the
\* variations of the i-th standard statement
RolesOfStatement(i) ==
    {r \in 1..Len(roles) :
        UpperAlnum(FirstSplit(LastSplit(roles[r].role, "/"), "."))
          \in SeqRange(STANDARD_STATEMENTS[i].variations)}

\* C12: for each standard category, standard_statement_map[category] is the
\* last role, in the iteration order of roles, whose normalized last path
\* segment is one of the category's variations; a category no role matches
\* has no entry, and get_role_by_standard_name returns None for it.  The map
\* is compared in the states between two calls, the answer in the states of
\* a get_role_by_standard_name call.
C12_LastMatchingRoleMapped ==
    status = "ok" =>
        /\ call.op = "none" =>
              \A i \in 1..Len(STANDARD_STATEMENTS) :
                  \A matching \in {RolesOfStatement(i)} :
                      IF matching = {}
                      THEN STANDARD_STATEMENTS[i].standard_name
                             \notin DOMAIN standard_statement_map
                      ELSE /\ STANDARD_STATEMENTS[i].standard_name
                                \in DOMAIN standard_statement_map
                           /\ standard_statement_map[STANDARD_STATEMENTS[i].standard_name]
                                = roles[CHOOSE r \in matching :
                                            \A q \in matching : q <= r].role
        /\ call.op = "get_role_by_standard_name" =>
              \A i \in 1..Len(STANDARD_STATEMENTS) :
                  (call.arg = STANDARD_STATEMENTS[i].standard_name
                     /\ RolesOfStatement(i) = {})
                    => result = NoneResult

\* C12's case: two roles match BALANCE_SHEET, the later one is mapped, and
\* get_role_by_standard_name returned None for a category no role matches
C12_Witness ==
    /\ status = "ok"
    /\ Cardinality(RolesOfStatement(1)) = 2
    /\ standard_statement_map["BALANCE_SHEET"] = RoleBalanceSheet
    /\ roles[1].role = RoleBalanceSheets
    /\ call = [op |-> "get_role_by_standard_name", arg |-> "COVER_PAGE"]
    /\ result = NoneResult

\* the Table-typed elements a depth-first walk from element n meets when it
\* does not go below a Table, in the order it meets them
RECURSIVE TablesMet(_, _), TablesMetAll(_, _, _)
TablesMetAll(tree, kids, j) ==
    IF j > Len(kids) THEN <<>>
    ELSE TablesMet(tree, kids[j]) \o TablesMetAll(tree, kids, j + 1)

TablesMet(tree, n) ==
    IF node_type(Element(tree, n).concept) = "Table" THEN <<n>>
    ELSE TablesMetAll(tree, Children(tree, n), 1)

\* the children of element n whose node type is type
ChildrenOfType(tree, n, type) ==
    SelectSeq(Children(tree, n), LAMBDA c : node_type(Element(tree, c).concept) = type)

\* the children of the first LineItems child of each of the tables, in order
RECURSIVE LineItemsOf(_, _, _)
LineItemsOf(tree, tables, j) ==
    IF j > Len(tables) THEN <<>>
    ELSE (IF ChildrenOfType(tree, tables[j], "LineItems") = <<>> THEN <<>>
          ELSE Children(tree, ChildrenOfType(tree, tables[j], "LineItems")[1]))
         \o LineItemsOf(tree, tables, j + 1)

\* C13: get_statement_line_items(role) returns, in the order of a depth-first
\* walk of the role's tree that does not go below a Table, the children of
\* the first LineItems child of each Table met; the LineItems node is not
\* returned in place of its children, and a Table without a LineItems child
\* contributes nothing.
C13_LineItemsOfTables ==
    (call.op = "get_statement_line_items" /\ HasRole(roles, call.arg)) =>
        result = Value(LineItemsOf(roles[RoleIndex(roles, call.arg)],
                                   TablesMet(roles[RoleIndex(roles, call.arg)], 0), 1))

\* C13's case: the table T1 has the LineItems children L1 and L2, the table
\* T3 has none, and the call returned the one child of L1
C13_Witness ==
    /\ doc \in StatementDocs
    /\ call = [op |-> "get_statement_line_items", arg |-> RoleA]
    /\ ChildrenOfType(roles[1], 2, "LineItems") = <<10, 12>>
    /\ 14 \in SeqRange(TablesMet(roles[1], 0))
    /\ Children(roles[1], 12) # <<>>
    /\ result = Value(<<11>>)

\* the Axis children of each of the tables, in order
RECURSIVE AxesOf(_, _, _)
AxesOf(tree, tables, j) ==
    IF j > Len(tables) THEN <<>>
    ELSE ChildrenOfType(tree, tables[j], "Axis") \o AxesOf(tree, tables, j + 1)

\* C14: the module-level get_axes_for_role(root) returns, in depth-first
\* order, the immediate Axis children of every Table reached without passing
\* through another Table; axes deeper inside a Table and Tables inside a
\* Table contribute nothing.
C14_AxesOfTables ==
    call.op = "get_axes" =>
        result = Value(AxesOf(roles[call.arg[1]], TablesMet(roles[call.arg[1]], call.arg[2]), 1))

\* C14's case: called with the role root, the table T1 holds the axis X1 and
\* the table T2 with its axis X2, the table T3 holds the axis X3, and the
\* call returned X1 and X3
C14_Witness ==
    /\ doc \in StatementDocs
    /\ call = [op |-> "get_axes", arg |-> <<1, 0>>]
    /\ 3 \in SeqRange(Children(roles[1], 2))
    /\ 8 \in SeqRange(Children(roles[1], 2))
    /\ Children(roles[1], 8) = <<9>>
    /\ result = Value(<<3, 15>>)

\* the Member children of each of the domains, in order
RECURSIVE MembersOf(_, _, _)
MembersOf(tree, domains, j) ==
    IF j > Len(domains) THEN <<>>
    ELSE ChildrenOfType(tree, domains[j], "Member") \o MembersOf(tree, domains, j + 1)

\* C15: get_members_for_axis(axis) returns, in order, the Member-typed
\* immediate children of the Domain-typed immediate children of axis; a
\* Member directly under the axis or deeper than one level under a Domain
\* is not returned.
C15_MembersOfDomains ==
    call.op = "get_members_for_axis" =>
        result = Value(MembersOf(roles[call.arg[1]],
                                 ChildrenOfType(roles[call.arg[1]], call.arg[2], "Domain"), 1))

\* C15's case: the axis X1 has the domain D1 and the member M2 as children,
\* D1 has the member M1, M1 has the member M3, and the call returned M1
C15_Witness ==
    /\ doc \in StatementDocs
    /\ call = [op |-> "get_members_for_axis", arg |-> <<1, 3>>]
    /\ Children(roles[1], 3) = <<4, 7>>
    /\ Children(roles[1], 4) = <<5>>
    /\ Children(roles[1], 5) = <<6>>
    /\ result = Value(<<5>>)

\* C16: XBRLPresentation.get_axes_for_role called with the element roles[r]
\* returns the list it returns when called with the role name r, which is
\* the list the module-level get_axes_for_role returns for that root.
C16_ElementLikeName ==
    call.op = "get_axes_for_role_element" =>
        /\ result = method_get_axes_for_role(roles, roles[call.arg[1]].role)
        /\ result = Value(get_axes_for_role(roles[call.arg[1]], 0))

\* C17: once parse has returned, no call of a query changes roles, a field
\* of a tree element, standard_statement_map or concept_index, the key set
\* of concept_index included, also when the concept looked up is absent.
C17_QueriesReadOnly ==
    [][status = "ok" => UNCHANGED <<roles, standard_statement_map, concept_index>>]_vars

\* C17's case: get_roles_containing_concept was called with a concept that
\* is no key of concept_index, under no prefix either, and is still none
C17_Witness ==
    /\ status = "ok"
    /\ concept_index # EmptyIndex
    /\ call.op = "get_roles_containing_concept"
    /\ ~Contains(call.arg, "_")
    /\ ~ConceptIndexed(call.arg)
    /\ result = Value(<<>>)

\* C18: after parse the role root has level 0 and every element directly
\* under a role root has level 1.
C18_TopLevelIsLevelOne ==
    status = "ok" =>
        \A i \in 1..Len(roles) :
            /\ roles[i].root.level = 0
            /\ \A j \in 1..Len(roles[i].root.children) :
                  Element(roles[i], roles[i].root.children[j]).level = 1

\* the labels of the elements reachable from the root of a role, the root excluded
ReachableLabels(tree) == {Element(tree, n).label : n \in Reachable(tree) \ {0}}

\* C19: for every block with a role, at least one presentationArc and no loc
\* element, parse enters the block's role into roles, and every label an
\* arc names as its from or to is the label of an element reachable from
\* the root of that role.
C19_LegacyCoversLabels ==
    status = "ok" =>
        \A b \in 1..Len(doc) :
            (Truthy(doc[b].role) /\ doc[b].locs = <<>> /\ doc[b].arcs # <<>>) =>
                /\ HasRole(roles, doc[b].role)
                /\ \A a \in 1..Len(doc[b].arcs) :
                      {doc[b].arcs[a].from, doc[b].arcs[a].to}
                        \subseteq ReachableLabels(roles[RoleIndex(roles, doc[b].role)])

\* C20: normalize_concept is idempotent: normalizing what it returned, for
\* any concept string, also one with several numeric suffixes, returns it
\* unchanged.
C20_NormalizeIdempotent ==
    (call.op = "normalize_concept" /\ result.kind = "value") =>
        normalize_concept(result.value) = result.value

\* the i-th rule of node_type, in the order Statement, Table, LineItems, Axis,
\* Member, Domain, Abstract, matches the concept
RuleMatches(i, concept) ==
    CASE i = 1 -> StartsWith(concept, SHttp) /\ HasSub(Lower(concept), SRole)
      [] i = 2 -> EndsWith(concept, STable) \/ HasSub(Lower(concept), SStatementTable)
      [] i = 3 -> \/ EndsWith(concept, SLineItems)
                  \/ HasSub(Lower(concept), SStatementLineItems)
                  \/ HasSub(Lower(concept), SScheduleLineItems)
      [] i = 4 -> EndsWith(concept, SAxis) \/ HasSub(Lower(concept), SAxisBr)
      [] i = 5 -> EndsWith(concept, SMember) \/ HasSub(Lower(concept), SMemberBr)
      [] i = 6 -> EndsWith(concept, SDomain) \/ HasSub(Lower(concept), SDomainBr)
      [] i = 7 -> \/ EndsWith(concept, SAbstract)
                  \/ HasSub(Lower(concept), SAbstractBr)
                  \/ HasSub(Lower(concept), SAbstractLower)

RuleTags == <<"Statement", "Table", "LineItems", "Axis", "Member", "Domain", "Abstract">>

\* C21: node_type returns one of the eight tags, the tag of the first rule
\* that matches in the order Statement, Table, LineItems, Axis, Member,
\* Domain, Abstract, and LineItem when none matches; a concept that matches a
\* Table pattern and an Abstract pattern is a Table.
C21_FirstMatchingRule ==
    (call.op = "node_type" /\ result.kind = "value") =>
        /\ result.value \in SeqRange(RuleTags) \cup {"LineItem"}
        /\ \A i \in 1..7 :
              (RuleMatches(i, call.arg) /\ \A k \in 1..(i-1) : ~RuleMatches(k, call.arg))
                => result.value = RuleTags[i]
        /\ (\A i \in 1..7 : ~RuleMatches(i, call.arg)) => result.value = "LineItem"

\* C21's case: a concept that matches a Table pattern and an Abstract pattern
\* was classified
C21_Witness ==
    /\ call.op = "node_type"
    /\ result.kind = "value"
    /\ RuleMatches(2, call.arg)
    /\ RuleMatches(7, call.arg)
    /\ ~RuleMatches(1, call.arg)
    /\ result.value = "Table"

\* C22: two concept strings that differ only in letter case get the same
\* node_type: every concept has the node_type of its lowercased spelling.
C22_CaseInsensitive ==
    (call.op = "node_type" /\ result.kind = "value") =>
        result.value = node_type(Lower(call.arg))

\* the positions, in the order of the locators (keys) of a block, of the
\* locators whose label is the `to` of no arc of the block
TopLevelOf(keys, arcs) ==
    SelectSeq([i \in 1..Len(keys) |-> i],
              LAMBDA i : \A a \in 1..Len(arcs) : arcs[a].to # keys[i])

TopLevel(block) == TopLevelOf(BlockLocs(block).keys, block.arcs)

\* the role element is the one made of a block with these locators and
\* these top-level locators: its label is the role URI, its concept the
\* normalized role URI, its href empty, and its children are the top-level
\* locators, in locator order, each with the role element as parent
RoleOfBlock(tree, role, keys, top) ==
    /\ tree.root.label = role
    /\ tree.root.concept = normalize_concept(role)
    /\ tree.root.href = <<>>
    /\ Len(tree.el) = Len(keys)
    /\ tree.root.children = top
    /\ \A j \in 1..Len(top) :
          /\ tree.el[top[j]].parent = 0
          /\ tree.el[top[j]].label = keys[top[j]]

\* what C23 says of the roles rs after parse, tops[b] being the top-level
\* locators of block b
RolesEntered(rs, tops) ==
    \A b \in 1..Len(doc) :
        Truthy(doc[b].role) =>
            /\ HasRole(rs, doc[b].role)
                  <=> \E q \in 1..Len(doc) : doc[q].role = doc[b].role /\ tops[q] # <<>>
            /\ (tops[b] # <<>>
                  /\ \A q \in (b+1)..Len(doc) : doc[q].role = doc[b].role => tops[q] = <<>>)
                 => \A keys \in {BlockLocs(doc[b]).keys} :
                        RoleOfBlock(rs[RoleIndex(rs, doc[b].role)], doc[b].role, keys, tops[b])

\* C23: when parse returns, the role of a block is in roles if and only if
\* a locator of a block of that role has a label that is the `to` of no arc
\* of its block; the role element, made by the last such block, has label =
\* role URI, concept = normalized role URI, empty href, and as children
\* exactly those locators, in locator order, each with parent the role
\* element.
C23_RoleEnteredIffTopLevel ==
    [][(status = "new" /\ status' = "ok") =>
          \A tops \in {[b \in 1..Len(doc) |->
                           IF Truthy(doc[b].role) THEN TopLevel(doc[b]) ELSE <<>>]} :
              RolesEntered(roles', tops)]_vars

\* C23's case: a block with a role was parsed whose locators are some
\* top-level and some not, and the role element has the top-level ones,
\* more than one, as children
C23_Witness ==
    /\ status = "ok"
    /\ Len(doc) = 1
    /\ doc[1].locs # <<>>
    /\ HasRole(roles, doc[1].role)
    /\ Len(roles[1].root.children) >= 2
    /\ Len(roles[1].root.children) < Len(roles[1].el)
    /\ \E a \in 1..Len(doc[1].arcs) : ~HasKey(BlockLocs(doc[1]).keys, doc[1].arcs[a].from)

\* arc a of block b names, as from or to, a label that no locator of the
\* block has (in the older format every label an arc names has one)
Unresolvable(b, a) ==
    \A keys \in {ParseLocs(doc[b].locs, 1, [keys |-> <<>>, el |-> <<>>]).keys} :
        /\ keys # <<>>
        /\ ~HasKey(keys, doc[b].arcs[a].from) \/ ~HasKey(keys, doc[b].arcs[a].to)

\* the document without arc a of block b
WithoutArc(b, a) ==
    [doc EXCEPT ![b].arcs = SubSeq(@, 1, a - 1) \o SubSeq(@, a + 1, Len(@))]

\* C24: an arc whose from or to label is the label of no locator of its
\* block is dropped without effect: parse raises nothing for it and returns
\* the roles, trees, element fields and concept_index it returns for the
\* document without that arc.
C24_UnresolvableArcDropped ==
    [][(status = "new" /\ status' # "new") =>
          \A b \in 1..Len(doc) : \A a \in 1..Len(doc[b].arcs) :
              Unresolvable(b, a) =>
                  \A without \in {parse(WithoutArc(b, a))} :
                      /\ status' = without.status
                      /\ roles' = without.roles
                      /\ concept_index' = without.concept_index]_vars

\* C25: after parse, every element that an arc attached to a parent has the
\* level of its parent plus 1, in whatever order the arcs stand in the
\* document.
C25_LevelIsParentLevelPlusOne ==
    status = "ok" =>
        \A i \in 1..Len(roles) : \A n \in 1..Len(roles[i].el) :
            roles[i].el[n].parent >= 1 =>
                roles[i].el[n].level = roles[i].el[roles[i].el[n].parent].level + 1

\* what C26 says of the arc that takes the elements from before to after,
\* when its child has the normalized concept of the child existing of its
\* parent
Merged(before, after, arc, parent, child, existing) ==
    /\ after[parent].children = before[parent].children
    /\ after[child].parent = before[child].parent
    /\ after[existing].label
         = IF Len(before[child].label) > Len(before[existing].label)
           THEN before[child].label ELSE before[existing].label
    /\ after[existing].concept
         = IF Len(before[child].concept) < Len(before[existing].concept)
           THEN before[child].concept ELSE before[existing].concept
    /\ after[existing].preferred_label
         = IF Truthy(arc.preferred_label)
           THEN arc.preferred_label ELSE before[existing].preferred_label

\* every arc of the hierarchy loop of a block with these locators that finds
\* an existing child does what C26 says
RECURSIVE MergesAsStated(_, _, _, _)
MergesAsStated(keys, before, arcs, n) ==
    n > Len(arcs)
    \/ \A after \in {ApplyArc(keys, before, arcs[n])} :
          /\ (/\ HasKey(keys, arcs[n].parent_label)
               /\ HasKey(keys, arcs[n].child_label)
               /\ ExistingChild(before, KeyIndex(keys, arcs[n].parent_label),
                                 KeyIndex(keys, arcs[n].child_label)) # 0)
              => Merged(before, after, arcs[n],
                        KeyIndex(keys, arcs[n].parent_label),
                        KeyIndex(keys, arcs[n].child_label),
                        ExistingChild(before, KeyIndex(keys, arcs[n].parent_label),
                                      KeyIndex(keys, arcs[n].child_label)))
          /\ MergesAsStated(keys, after, arcs, n + 1)

\* C26: when the child of an arc has the normalized concept of an existing
\* child of the same parent, the child is not appended and its parent is not
\* set; the existing child gets the longer of the two labels and the shorter
\* of the two concepts (its own on a tie), and the preferred_label of the
\* arc when the arc has one, keeping its own otherwise.
C26_MergeKeepsSurvivor ==
    [][(status = "new" /\ status' # "new") =>
          \A b \in 1..Len(doc) :
              BlockBuilds(doc[b]) =>
                  \A locs \in {BlockLocs(doc[b])} :
                      MergesAsStated(locs.keys, locs.el, ParseArcs(doc[b].arcs), 1)]_vars

\* C27: parse terminates for every document, also one whose arcs form a
\* cycle among locators reachable from a top-level element: the hierarchy
\* loop and the recursion of _index_concepts both run to their end, so parse
\* does not end in a recursion without end.
C27_ParseTerminates ==
    status # "RecursionError"

\* the two lists of role trees have the same children list at every element
SameChildren(rs, qs) ==
    /\ Len(rs) = Len(qs)
    /\ \A i \in 1..Len(rs) :
          /\ rs[i].role = qs[i].role
          /\ Len(rs[i].el) = Len(qs[i].el)
          /\ \A n \in 0..Len(rs[i].el) : Children(rs[i], n) = Children(qs[i], n)

\* C28: applying an arc is idempotent: a document in which an arc stands
\* twice gives, for every role, the tree, with the children list of every
\* element, of the document in which the arc stands once.
C28_RepeatedArcIdempotent ==
    [][(status = "new" /\ status' = "ok") =>
          \A b \in 1..Len(doc) : \A a, r \in 1..Len(doc[b].arcs) :
              (a < r /\ doc[b].arcs[a] = doc[b].arcs[r]) =>
                  \A once \in {parse(WithoutArc(b, r))} :
                      once.status = "ok" /\ SameChildren(roles', once.roles)]_vars

\* C29: paging through the current filings leaves no gap: every request
\* that next() makes, in a run of next() calls from get_current_filings on,
\* starts at the start offset of the request before it plus the number of
\* entries that request returned; and the request previous() makes right
\* after a next() that turned the page starts where the request before
\* that next() started.
C29_PagingGapFree ==
    \A k \in 2..Len(requests) :
        /\ (\A j \in 2..k : requests[j].op = "next")
             => requests[k].start = requests[k-1].start + requests[k-1].returned
        /\ (k >= 3 /\ requests[k].op = "previous"
               /\ requests[k-1].op = "next" /\ requests[k-1].returned > 0)
             => requests[k].start = requests[k-2].start

\* C30: an iteration over a Filings object that is interleaved with another
\* one over the same object yields the filings at the indexes 0..len-1,
\* each once and in order.
C30_InterleavedIterations ==
    \A i \in 1..Len(loops) :
        loops[i].pc = "done" => loops[i].yielded = [j \in 1..filings.len |-> j - 1]

====
